---- MODULE Spec2Model ----
(***************************************************************************)
(* A model of the wheel-clock digit display: the two variants of           *)
(* CountdownTracker and Clock (src/wheel-clock.ts and src/index.ts), the   *)
(* browser's timer, animation-frame and Web-Animations queues they use,    *)
(* and the time source.                                                    *)
(***************************************************************************)
EXTENDS Integers, Sequences, FiniteSets, TLC

VARIABLES variant, trackers, timers, anims, rafs, now, opts, clockKeys,
          animationFrameId, frameCounter, isDestroyed, isTimeReached,
          animationTimeouts, callbackCount, destroyCalled, workTicks, lastOp

vars == <<variant, trackers, timers, anims, rafs, now, opts, clockKeys,
          animationFrameId, frameCounter, isDestroyed, isTimeReached,
          animationTimeouts, callbackCount, destroyCalled, workTicks, lastOp>>

clockVars == <<rafs, now, opts, clockKeys, animationFrameId, frameCounter,
               isDestroyed, isTimeReached, animationTimeouts, callbackCount,
               destroyCalled, workTicks>>

(***************************************************************************)
(* Bounds of the model.                                                    *)
(***************************************************************************)
\* the most animations (running, or with a handler still queued) at once
MaxAnims == 2
\* the refresh callbacks a clock may run
MaxFrames == 21
\* the largest value given to formatValue
MaxValue == 9999
\* the latest instant of the time source, in steps of TimeStep
MaxNowSteps == 4
\* the largest unit value given to getWheelDirection
MaxUnitValue == 99
\* the most whole days between the instants given to getTimeRemaining
MaxDays == 3
\* the time source is read at instants that are multiples of TimeStep
TimeStep == 25 * 1000

(***************************************************************************)
(* Program constants.                                                      *)
(***************************************************************************)
ANIMATION_DURATION == 600
UPDATE_THROTTLE == 10
INITIAL_DELAY == 500

\* the value JavaScript's Number() gives for an unparseable input
NaN == -1000000000

Units == <<"Days", "Hours", "Minutes", "Seconds">>
WheelTypes == {"tens", "ones"}
Variants == {"wheel-clock", "index"}

(***************************************************************************)
(* JavaScript numbers, comparisons and strings.  A string is a sequence    *)
(* of one-character strings.                                               *)
(***************************************************************************)
isNaN(x) == x = NaN
\* the mutant: no two values compare equal
StrictEq_Never(a, b) == FALSE
StrictEq(a, b) == ~isNaN(a) /\ ~isNaN(b) /\ a = b
Lt(a, b) == ~isNaN(a) /\ ~isNaN(b) /\ a < b
Gt(a, b) == ~isNaN(a) /\ ~isNaN(b) /\ a > b
Le(a, b) == ~isNaN(a) /\ ~isNaN(b) /\ a <= b
Ge(a, b) == ~isNaN(a) /\ ~isNaN(b) /\ a >= b

DigitChars == <<"0", "1", "2", "3", "4", "5", "6", "7", "8", "9">>

RECURSIVE NatString(_)
NatString(n) ==
  IF n < 10 THEN <<DigitChars[n + 1]>>
  ELSE NatString(n \div 10) \o <<DigitChars[(n % 10) + 1]>>

\* String(num)
String(num) ==
  IF isNaN(num) THEN <<"N", "a", "N">>
  ELSE IF num < 0 THEN <<"-">> \o NatString(0 - num)
  ELSE NatString(num)

\* str.padStart(2, "0")
padStart2(str) ==
  IF Len(str) >= 2 THEN str
  ELSE IF Len(str) = 1 THEN <<"0">> \o str
  ELSE <<"0", "0">>

\* the mutant: the first two characters are taken
sliceLast2_First(str) ==
  IF Len(str) >= 2 THEN SubSeq(str, 1, 2) ELSE str

\* str.slice(-2)
sliceLast2(str) ==
  IF Len(str) >= 2 THEN SubSeq(str, Len(str) - 1, Len(str)) ELSE str

\* parseInt(ch, 10) of a single character
parseInt(ch) ==
  IF \E d \in 1..10 : DigitChars[d] = ch
  THEN (CHOOSE d \in 1..10 : DigitChars[d] = ch) - 1
  ELSE NaN

\* the least identifier (>= 1) that is not in use
MinFree(used) ==
  CHOOSE i \in 1..(Cardinality(used) + 1) :
    i \notin used /\ \A j \in 1..(i - 1) : j \in used

(***************************************************************************)
(* CountdownTracker of src/wheel-clock.ts.                                 *)
(* A world w is a record [trackers, timers, anims]: the tracker objects    *)
(* (by time unit) and the browser's pending timers and animations.         *)
(***************************************************************************)
formatValueW(value) ==
  IF isNaN(value) THEN <<"0", "0">>
  ELSE IF value >= 100 THEN String(value) ELSE padStart2(String(value))

parseDigitsW(str) ==
  LET paddedStr == IF Len(str) >= 2 THEN str ELSE padStart2(str)
      lastTwo == sliceLast2(paddedStr)
      tens == parseInt(lastTwo[1])
      ones == parseInt(lastTwo[2])
  IN  <<IF isNaN(tens) THEN 0 ELSE tens, IF isNaN(ones) THEN 0 ELSE ones>>

DigitOfW(type, value) ==
  LET d == parseDigitsW(formatValueW(value))
  IN  IF type = "tens" THEN d[1] ELSE d[2]

\* "up" for isForward, "down" for a backward cycle, "none" for null
getTimeUnitCycleInfo(label, oldValue, newValue) ==
  IF label \in {"Seconds", "Minutes"} /\ StrictEq(oldValue, 59) /\ StrictEq(newValue, 0)
    THEN "up"
  ELSE IF label \in {"Seconds", "Minutes"} /\ StrictEq(oldValue, 0) /\ StrictEq(newValue, 59)
    THEN "down"
  ELSE IF label = "Hours" /\ StrictEq(oldValue, 23) /\ StrictEq(newValue, 0)
    THEN "up"
  ELSE IF label = "Hours" /\ StrictEq(oldValue, 0) /\ StrictEq(newValue, 23)
    THEN "down"
  ELSE "none"

\* the mutant: only the strict comparisons of the first two tests
handleRolloverCases_Strict(oldDigit, newDigit, oldValue, newValue) ==
  IF oldDigit = 9 /\ newDigit = 0 /\ Gt(newValue, oldValue) THEN "up"
  ELSE IF oldDigit = 0 /\ newDigit = 9 /\ Lt(newValue, oldValue) THEN "down"
  ELSE "none"

handleRolloverCases(oldDigit, newDigit, oldValue, newValue) ==
  LET fwd0 == oldDigit = 9 /\ newDigit = 0 /\ Gt(newValue, oldValue)
      bwd0 == oldDigit = 0 /\ newDigit = 9 /\ Lt(newValue, oldValue)
      general == ~fwd0 /\ ~bwd0
      isForwardRollover ==
        IF general /\ oldDigit = 9 /\ newDigit = 0
        THEN Ge(newValue, oldValue) ELSE fwd0
      isBackwardRollover ==
        IF general /\ ~(oldDigit = 9 /\ newDigit = 0) /\ oldDigit = 0 /\ newDigit = 9
        THEN Le(newValue, oldValue) ELSE bwd0
  IN  IF isForwardRollover THEN "up"
      ELSE IF isBackwardRollover THEN "down"
      ELSE "none"

\* the mutant: the digits alone decide
getDirectionBasedOnValue_Digits(newValue, oldValue, newDigit, oldDigit) ==
  IF newDigit > oldDigit THEN "up" ELSE "down"

getDirectionBasedOnValue(newValue, oldValue, newDigit, oldDigit) ==
  IF Lt(newValue, oldValue) THEN "down"
  ELSE IF Gt(newValue, oldValue) THEN "up"
  ELSE IF newDigit > oldDigit THEN "up" ELSE "down"

\* the mutant: the unit-level cycle check is skipped
getWheelDirection_NoCycle(label, oldDigit, newDigit, oldValue, newValue) ==
  LET rolloverResult == handleRolloverCases(oldDigit, newDigit, oldValue, newValue)
  IN  IF rolloverResult # "none" THEN rolloverResult
      ELSE getDirectionBasedOnValue(newValue, oldValue, newDigit, oldDigit)

\* "up" when the code returns true (wheel-increasing), else "down"
getWheelDirection(label, oldDigit, newDigit, oldValue, newValue) ==
  LET cycleInfo == getTimeUnitCycleInfo(label, oldValue, newValue)
      rolloverResult == handleRolloverCases(oldDigit, newDigit, oldValue, newValue)
  IN  IF cycleInfo # "none" THEN cycleInfo
      ELSE IF rolloverResult # "none" THEN rolloverResult
      ELSE getDirectionBasedOnValue(newValue, oldValue, newDigit, oldDigit)

(***************************************************************************)
(* Tracker objects.  One record shape serves both variants; the fields a   *)
(* variant does not have keep their initial value.                         *)
(*   wheel-clock.ts: dataValue, dataPrevious (-1: attribute absent),       *)
(*                   classes, animationTimeouts (0: no map entry)          *)
(*   index.ts:       type, animationOptions, divs (the .wheel-value        *)
(*                   children of a wheel, in document order),              *)
(*                   animationControllers (0: no map entry)                *)
(*   history:        destroyed (destroy() was called)                      *)
(***************************************************************************)
NoHandles == [s \in WheelTypes |-> 0]

\* history: the transitions in flight on the given wheels of tracker u are
\* cancelled from now on (a later update changes the slot's digit, or the
\* tracker is destroyed)
MarkCancelled(w, u, types) ==
  [w EXCEPT
     !.timers = {IF t.kind = "animation" /\ t.unit = u /\ t.slot \in types
                 THEN [t EXCEPT !.cancelled = TRUE] ELSE t : t \in @},
     !.anims = {IF a.unit = u /\ a.slot \in types
                THEN [a EXCEPT !.cancelled = TRUE] ELSE a : a \in @}]

UsedTimerIds(w) ==
  {t.id : t \in w.timers}
    \cup {w.trackers[u].animationTimeouts[s] : u \in DOMAIN w.trackers, s \in WheelTypes}

\* window.setTimeout(handler, delay): the timer the browser now holds
setTimeout(w, id, kind, unit, slot, delay) ==
  [w EXCEPT !.timers = @ \cup {[id |-> id, kind |-> kind, unit |-> unit,
                                 slot |-> slot, delay |-> delay,
                                 cancelled |-> FALSE]}]

\* clearTimeout(id)
clearTimeout(w, id) ==
  [w EXCEPT !.timers = {t \in @ : t.id # id}]

NewTrackerW(label, value) ==
  LET currentValue == IF isNaN(value) THEN 0 ELSE value
  IN  [label |-> label,
       currentValue |-> currentValue,
       dataValue |-> [s \in WheelTypes |-> DigitOfW(s, currentValue)],
       dataPrevious |-> [s \in WheelTypes |-> -1],
       classes |-> [s \in WheelTypes |-> {}],
       animationTimeouts |-> NoHandles,
       type |-> "countdown",
       animationOptions |-> [duration |-> ANIMATION_DURATION, direction |-> "auto"],
       divs |-> [s \in WheelTypes |-> <<>>],
       animationControllers |-> NoHandles,
       destroyed |-> FALSE]

\* the mutant: the attribute is not written
setWheelDataValue_NoWrite(tr, type, targetValue) == tr

setWheelDataValue(tr, type, targetValue) ==
  [tr EXCEPT !.dataValue[type] = DigitOfW(type, targetValue)]

\* the mutant: the map entry is dropped but the browser timer is left pending
clearAnimationTimeout_NoClear(w, u, type) ==
  [w EXCEPT !.trackers[u].animationTimeouts[type] = 0]

clearAnimationTimeout(w, u, type) ==
  LET existingTimeout == w.trackers[u].animationTimeouts[type]
  IN  IF existingTimeout # 0
      THEN [clearTimeout(w, existingTimeout) EXCEPT
              !.trackers[u].animationTimeouts[type] = 0]
      ELSE w

\* the mutant: only the map is emptied, the timers stay pending
clearAnimationTimeouts_NoClear(w, u) ==
  [w EXCEPT !.trackers[u].animationTimeouts = NoHandles]

clearAnimationTimeouts(w, u) ==
  LET ids == {w.trackers[u].animationTimeouts[s] : s \in WheelTypes} \ {0}
  IN  [w EXCEPT !.timers = {t \in @ : t.id \notin ids},
                !.trackers[u].animationTimeouts = NoHandles]

\* one statement of an update call: its name, the wheel it works on and the
\* world right after it
Step(stmt, type, w) == [stmt |-> stmt, slot |-> type, w |-> w]

\* the world after the last statement, w when nothing was executed
LastWorld(steps, w) == IF steps = <<>> THEN w ELSE steps[Len(steps)].w

\* the mutant: the new transition is started first and the old timer is
\* cleared after it
updateWheelStepsW_ClearLast(w, u, type, oldValue, newValue) ==
  LET tr == w.trackers[u]
      oldDigit == DigitOfW(type, oldValue)
      newDigit == DigitOfW(type, newValue)
      isIncreasing ==
        getWheelDirection(tr.label, oldDigit, newDigit, oldValue, newValue) = "up"
      w1 == [MarkCancelled(w, u, {type}) EXCEPT
               !.trackers[u] = setWheelDataValue(tr, type, newValue)]
      w2 == [w1 EXCEPT !.trackers[u].classes[type] = {}]
      w3 == [w2 EXCEPT !.trackers[u].classes[type] =
               {IF isIncreasing THEN "wheel-increasing" ELSE "wheel-decreasing"}]
      timeoutId == MinFree(UsedTimerIds(w3))
      w4 == setTimeout(w3, timeoutId, "animation", u, type, ANIMATION_DURATION)
      w5 == clearAnimationTimeout(w4, u, type)
      w6 == [w5 EXCEPT !.trackers[u].animationTimeouts[type] = timeoutId]
  IN  IF oldDigit = newDigit THEN <<>>
      ELSE <<Step("setWheelDataValue", type, w1),
             Step("classList.remove", type, w2),
             Step("classList.add", type, w3),
             Step("setTimeout", type, w4),
             Step("clearAnimationTimeout", type, w5),
             Step("animationTimeouts.set", type, w6)>>

\* the mutant: a wheel whose digit did not change is restarted as well
updateWheelStepsW_NoEarlyReturn(w, u, type, oldValue, newValue) ==
  LET tr == w.trackers[u]
      oldDigit == DigitOfW(type, oldValue)
      newDigit == DigitOfW(type, newValue)
      isIncreasing ==
        getWheelDirection(tr.label, oldDigit, newDigit, oldValue, newValue) = "up"
      w1 == [MarkCancelled(w, u, {type}) EXCEPT
               !.trackers[u] = setWheelDataValue(tr, type, newValue)]
      w2 == clearAnimationTimeout(w1, u, type)
      w3 == [w2 EXCEPT !.trackers[u].classes[type] = {}]
      w4 == [w3 EXCEPT !.trackers[u].classes[type] =
               {IF isIncreasing THEN "wheel-increasing" ELSE "wheel-decreasing"}]
      timeoutId == MinFree(UsedTimerIds(w4))
      w5 == setTimeout(w4, timeoutId, "animation", u, type, ANIMATION_DURATION)
      w6 == [w5 EXCEPT !.trackers[u].animationTimeouts[type] = timeoutId]
  IN  <<Step("setWheelDataValue", type, w1),
        Step("clearAnimationTimeout", type, w2),
        Step("classList.remove", type, w3),
        Step("classList.add", type, w4),
        Step("setTimeout", type, w5),
        Step("animationTimeouts.set", type, w6)>>

\* the statements of updateWheel in the order the code runs them
updateWheelStepsW(w, u, type, oldValue, newValue) ==
  LET tr == w.trackers[u]
      oldDigit == DigitOfW(type, oldValue)
      newDigit == DigitOfW(type, newValue)
      isIncreasing ==
        getWheelDirection(tr.label, oldDigit, newDigit, oldValue, newValue) = "up"
      w1 == [MarkCancelled(w, u, {type}) EXCEPT
               !.trackers[u] = setWheelDataValue(tr, type, newValue)]
      w2 == clearAnimationTimeout(w1, u, type)
      w3 == [w2 EXCEPT !.trackers[u].classes[type] = {}]
      w4 == [w3 EXCEPT !.trackers[u].classes[type] =
               {IF isIncreasing THEN "wheel-increasing" ELSE "wheel-decreasing"}]
      timeoutId == MinFree(UsedTimerIds(w4))
      w5 == setTimeout(w4, timeoutId, "animation", u, type, ANIMATION_DURATION)
      w6 == [w5 EXCEPT !.trackers[u].animationTimeouts[type] = timeoutId]
  IN  IF oldDigit = newDigit THEN <<>>
      ELSE <<Step("setWheelDataValue", type, w1),
             Step("clearAnimationTimeout", type, w2),
             Step("classList.remove", type, w3),
             Step("classList.add", type, w4),
             Step("setTimeout", type, w5),
             Step("animationTimeouts.set", type, w6)>>

updateWheelW(w, u, type, oldValue, newValue) ==
  LastWorld(updateWheelStepsW(w, u, type, oldValue, newValue), w)

\* the statements of update in the order the code runs them
updateStepsW(w, u, val) ==
  LET tr == w.trackers[u]
      newValue == val
      oldValue == tr.currentValue
      withPrevious ==
        IF Ge(oldValue, 0)
        THEN [tr EXCEPT !.dataPrevious = [s \in WheelTypes |-> DigitOfW(s, oldValue)]]
        ELSE tr
      w1 == [w EXCEPT !.trackers[u] = [withPrevious EXCEPT !.currentValue = newValue]]
      tens == updateWheelStepsW(w1, u, "tens", oldValue, newValue)
      ones == updateWheelStepsW(LastWorld(tens, w1), u, "ones", oldValue, newValue)
  IN  IF ~StrictEq(newValue, tr.currentValue)
      THEN <<Step("currentValue", "", w1)>> \o tens \o ones
      ELSE <<>>

updateW(w, u, val) == LastWorld(updateStepsW(w, u, val), w)

destroyW(w, u) ==
  [clearAnimationTimeouts(MarkCancelled(w, u, WheelTypes), u) EXCEPT
     !.trackers[u].destroyed = TRUE]

\* the mutant: the callback deletes the map entry and leaves the class
animationTimeoutW_KeepClass(w, t) ==
  [w EXCEPT !.timers = @ \ {t},
            !.trackers[t.unit].animationTimeouts[t.slot] = 0]

\* the completion callback that updateWheel passes to setTimeout
animationTimeoutW(w, t) ==
  [w EXCEPT !.timers = @ \ {t},
            !.trackers[t.unit].classes[t.slot] = {},
            !.trackers[t.unit].animationTimeouts[t.slot] = 0]

(***************************************************************************)
(* CountdownTracker of src/index.ts.                                       *)
(* A wheel's divs are the texts of its .wheel-value children in document   *)
(* order; every value div carries both classes wheel-value and             *)
(* wheel-value--current (createValueDiv, completeWheelTransition), so      *)
(* querySelector(".wheel-value--current") is the wheel's first div.        *)
(* An animation is the pair of Web Animations of one transition with its   *)
(* AbortController: [id, unit, slot, oldDiv, newDiv, direction, aborted,   *)
(* phase, cancelled].  oldDiv and newDiv name the two divs by their position in the   *)
(* wheel, 0 once the div is detached (a detached div is never attached     *)
(* again).  phase is "running", "finished" (both finished promises         *)
(* resolved, the then-handler queued) or "rejected" (cancelled while       *)
(* running, the catch-handler queued).  Controllers are named per wheel.   *)
(***************************************************************************)
formatValueI(value) ==
  IF isNaN(value) THEN <<"0", "0">>
  ELSE IF value < 10 THEN <<"0">> \o String(value)
  ELSE String(value)

parseDigitsI(str) ==
  LET lastTwo == sliceLast2(str)
  IN  IF Len(str) >= 2 THEN <<parseInt(lastTwo[1]), parseInt(lastTwo[2])>>
      ELSE <<0, parseInt(IF Len(str) >= 1 THEN str[1] ELSE "0")>>

DigitOfI(type, value) ==
  LET d == parseDigitsI(formatValueI(value))
  IN  IF type = "tens" THEN d[1] ELSE d[2]

OfWheel(a, u, type) == a.unit = u /\ a.slot = type

UsedControllerIds(w, u, type) ==
  {a.id : a \in {b \in w.anims : OfWheel(b, u, type)}}
    \cup {w.trackers[u].animationControllers[type]}

\* parentNode.removeChild(div) for the div at position i of the wheel
removeChild(w, u, type, i) ==
  LET Shift(r) == IF r = i THEN 0 ELSE IF r > i THEN r - 1 ELSE r
      divs == w.trackers[u].divs[type]
  IN  IF i = 0 THEN w
      ELSE [w EXCEPT
              !.trackers[u].divs[type] =
                 [k \in 1..(Len(divs) - 1) |-> IF k < i THEN divs[k] ELSE divs[k + 1]],
              !.anims = {IF OfWheel(a, u, type)
                         THEN [a EXCEPT !.oldDiv = Shift(@), !.newDiv = Shift(@)]
                         ELSE a : a \in @}]

\* every div of the wheel is removed and one fresh div with the text is appended
replaceChildren(w, u, type, text) ==
  [w EXCEPT
     !.trackers[u].divs[type] = <<text>>,
     !.anims = {IF OfWheel(a, u, type)
                THEN [a EXCEPT !.oldDiv = 0, !.newDiv = 0]
                ELSE a : a \in @}]

setWheelValue(tr, type, targetValue) ==
  LET targetDigit == DigitOfI(type, targetValue)
  IN  IF Len(tr.divs[type]) >= 1
      THEN [tr EXCEPT !.divs[type][1] = String(targetDigit)]
      ELSE tr

\* the mutant: every tracker is built with type clock
NewTrackerI_TypeClock(label, value, type, animation) ==
  LET currentValue == IF isNaN(value) THEN 0 ELSE value
      created ==
        [label |-> label,
         currentValue |-> currentValue,
         dataValue |-> [s \in WheelTypes |-> 0],
         dataPrevious |-> [s \in WheelTypes |-> -1],
         classes |-> [s \in WheelTypes |-> {}],
         animationTimeouts |-> NoHandles,
         type |-> "clock",
         animationOptions |->
           [duration |-> animation.duration,
            direction |-> IF animation.direction = "omitted" THEN "auto"
                          ELSE animation.direction],
         divs |-> [s \in WheelTypes |-> << <<>> >>],
         animationControllers |-> NoHandles,
         destroyed |-> FALSE]
  IN  setWheelValue(setWheelValue(created, "tens", currentValue), "ones", currentValue)

NewTrackerI(label, value, type, animation) ==
  LET currentValue == IF isNaN(value) THEN 0 ELSE value
      created ==
        [label |-> label,
         currentValue |-> currentValue,
         dataValue |-> [s \in WheelTypes |-> 0],
         dataPrevious |-> [s \in WheelTypes |-> -1],
         classes |-> [s \in WheelTypes |-> {}],
         animationTimeouts |-> NoHandles,
         type |-> type,
         animationOptions |->
           [duration |-> animation.duration,
            direction |-> IF animation.direction = "omitted" THEN "auto"
                          ELSE animation.direction],
         divs |-> [s \in WheelTypes |-> << <<>> >>],
         animationControllers |-> NoHandles,
         destroyed |-> FALSE]
  IN  setWheelValue(setWheelValue(created, "tens", currentValue), "ones", currentValue)

\* the mutant: the direction option is ignored
getAnimationDirection_TypeOnly(tr) ==
  IF tr.type = "countdown" THEN "down" ELSE "up"

getAnimationDirection(tr) ==
  IF tr.animationOptions.direction # "auto" THEN tr.animationOptions.direction
  ELSE IF tr.type = "countdown" THEN "down" ELSE "up"

\* controller.abort(): the signal becomes aborted and the abort listener
\* cancels both animations, which rejects their finished promises unless
\* they are already resolved
abort(w, u, type, id) ==
  [w EXCEPT !.anims =
     {IF OfWheel(a, u, type) /\ a.id = id
      THEN [a EXCEPT !.aborted = TRUE,
                     !.phase = IF @ = "running" THEN "rejected" ELSE @]
      ELSE a : a \in @}]

cancelWheelAnimation(w, u, type) ==
  LET controller == w.trackers[u].animationControllers[type]
      w1 == IF controller # 0
            THEN [abort(w, u, type, controller) EXCEPT
                    !.trackers[u].animationControllers[type] = 0]
            ELSE w
      valueDivs == w1.trackers[u].divs[type]
      currentValue == IF valueDivs[1] # <<>> THEN valueDivs[1] ELSE <<"0">>
  IN  IF Len(valueDivs) > 1 THEN replaceChildren(w1, u, type, currentValue)
      ELSE w1

animateWheelTransition(w, u, type, newDigit, direction) ==
  LET wheel == w.trackers[u].divs[type]
      controller == MinFree(UsedControllerIds(w, u, type) \ {0})
  IN  IF Len(wheel) = 0 THEN w
      ELSE [w EXCEPT
              !.trackers[u].divs[type] = Append(@, String(newDigit)),
              !.trackers[u].animationControllers[type] = controller,
              !.anims = @ \cup {[id |-> controller, unit |-> u, slot |-> type,
                                  oldDiv |-> 1, newDiv |-> Len(wheel) + 1,
                                  direction |-> direction,
                                  aborted |-> FALSE, phase |-> "running",
                                  cancelled |-> FALSE]}]

\* the mutant: the transition is animated whatever the duration
updateWheelStepsI_AlwaysAnimate(w, u, type, oldDigit, newDigit) ==
  LET w1 == cancelWheelAnimation(MarkCancelled(w, u, {type}), u, type)
      tr == w1.trackers[u]
      direction == getAnimationDirection(tr)
  IN  IF StrictEq(oldDigit, newDigit) THEN <<>>
      ELSE <<Step("cancelWheelAnimation", type, w1),
             Step("animateWheelTransition", type,
                  animateWheelTransition(w1, u, type, newDigit, direction))>>

\* the statements of updateWheel in the order the code runs them
updateWheelStepsI(w, u, type, oldDigit, newDigit) ==
  LET w1 == cancelWheelAnimation(MarkCancelled(w, u, {type}), u, type)
      tr == w1.trackers[u]
      direction == getAnimationDirection(tr)
  IN  IF StrictEq(oldDigit, newDigit) THEN <<>>
      ELSE IF tr.animationOptions.duration > 0
        THEN <<Step("cancelWheelAnimation", type, w1),
               Step("animateWheelTransition", type,
                    animateWheelTransition(w1, u, type, newDigit, direction))>>
      ELSE <<Step("cancelWheelAnimation", type, w1),
             Step("setWheelValue", type,
                  [w1 EXCEPT !.trackers[u] = setWheelValue(tr, type, tr.currentValue)])>>

updateWheelI(w, u, type, oldDigit, newDigit) ==
  LastWorld(updateWheelStepsI(w, u, type, oldDigit, newDigit), w)

\* the mutant: only NaN is rejected
InvalidI_NaNOnly(newValue) == isNaN(newValue)

\* the mutant: only the range is tested
InvalidI_RangeOnly(newValue) == Lt(newValue, 0) \/ Gt(newValue, 9999)

\* update rejects the value with console.warn
InvalidI(newValue) == isNaN(newValue) \/ newValue < 0 \/ newValue > 9999

\* the statements of update in the order the code runs them
updateStepsI(w, u, val) ==
  LET tr == w.trackers[u]
      newValue == val
      old == parseDigitsI(formatValueI(tr.currentValue))
      new == parseDigitsI(formatValueI(newValue))
      w1 == [w EXCEPT !.trackers[u].currentValue = newValue]
      tens == updateWheelStepsI(w1, u, "tens", old[1], new[1])
      ones == updateWheelStepsI(LastWorld(tens, w1), u, "ones", old[2], new[2])
  IN  IF InvalidI(newValue) THEN <<>>
      ELSE IF StrictEq(newValue, tr.currentValue) THEN <<>>
      ELSE <<Step("currentValue", "", w1)>> \o tens \o ones

updateI(w, u, val) == LastWorld(updateStepsI(w, u, val), w)

destroyI(w, u) ==
  LET tr == w.trackers[u]
      w1 == abort(MarkCancelled(w, u, WheelTypes), u, "tens",
                  tr.animationControllers["tens"])
      w2 == abort(w1, u, "ones", tr.animationControllers["ones"])
  IN  [w2 EXCEPT !.trackers[u].animationControllers = NoHandles,
                 !.trackers[u].destroyed = TRUE]

\* the mutant: the outgoing div stays in the wheel
completeWheelTransition_KeepOld(w, a) ==
  [w EXCEPT !.trackers[a.unit].animationControllers[a.slot] = 0]

\* a is the animation as the world now holds it
completeWheelTransition(w, a) ==
  [removeChild(w, a.unit, a.slot, a.oldDiv) EXCEPT
     !.trackers[a.unit].animationControllers[a.slot] = 0]

RemoveAnim(w, a) ==
  [w EXCEPT !.anims = {b \in @ : ~(OfWheel(b, a.unit, a.slot) /\ b.id = a.id)}]

\* the mutant: the completion does not look at the abort signal
thenHandler_NoGuard(w, a) == RemoveAnim(completeWheelTransition(w, a), a)

\* Promise.all([...finished]).then(...)
thenHandler(w, a) ==
  IF ~a.aborted THEN RemoveAnim(completeWheelTransition(w, a), a)
  ELSE RemoveAnim(w, a)

\* ... .catch(...)
catchHandler(w, a) == RemoveAnim(removeChild(w, a.unit, a.slot, a.newDiv), a)

(***************************************************************************)
(* The two variants behind one interface.                                  *)
(***************************************************************************)
NewTracker(v, label, value, type, animation) ==
  IF v = "index" THEN NewTrackerI(label, value, type, animation)
  ELSE NewTrackerW(label, value)

updateSteps(w, u, val) ==
  IF variant = "index" THEN updateStepsI(w, u, val) ELSE updateStepsW(w, u, val)

update(w, u, val) ==
  IF variant = "index" THEN updateI(w, u, val) ELSE updateW(w, u, val)

destroy(w, u) ==
  IF variant = "index" THEN destroyI(w, u) ELSE destroyW(w, u)

\* the handle map of a tracker: animationTimeouts or animationControllers
HandleMap(tr) ==
  IF variant = "index" THEN tr.animationControllers ELSE tr.animationTimeouts

World == [trackers |-> trackers, timers |-> timers, anims |-> anims]

(***************************************************************************)
(* The time source.  Instants are milliseconds; a TimeObject is            *)
(* [Total, keys, val]: keys is the order of Object.entries without Total.  *)
(***************************************************************************)
\* the mutant: the first argument whatever the second
Max_NoClamp(a, b) == a

Max(a, b) == IF a >= b THEN a ELSE b

\* the breakdown when Date.parse(endtime) is NaN: NaN - Date.now() is NaN,
\* Math.max(NaN, 0) is NaN, and so is every field computed from it
NaNTimeObject(showSeconds) ==
  [Total |-> NaN,
   keys |-> IF showSeconds THEN <<"Days", "Hours", "Minutes", "Seconds">>
            ELSE <<"Days", "Hours", "Minutes">>,
   val |-> [k \in {"Days", "Hours", "Minutes", "Seconds"} |-> NaN]]

getTimeRemainingI(endtime, t0, showSeconds) ==
  LET t == endtime - t0
      clampedT == Max(t, 0)
      seconds == clampedT \div 1000
      minutes == seconds \div 60
      hours == minutes \div 60
      days == hours \div 24
  IN  IF isNaN(endtime) THEN NaNTimeObject(showSeconds)
      ELSE
      [Total |-> t,
       keys |-> IF showSeconds THEN <<"Days", "Hours", "Minutes", "Seconds">>
                ELSE <<"Days", "Hours", "Minutes">>,
       val |-> [k \in {"Days", "Hours", "Minutes", "Seconds"} |->
                  CASE k = "Days" -> days
                    [] k = "Hours" -> hours % 24
                    [] k = "Minutes" -> minutes % 60
                    [] OTHER -> IF clampedT = 0 THEN 0 ELSE seconds % 60]]

getTimeRemainingW(endtime, t0, showSeconds) ==
  LET t == endtime - t0
      clampedT == Max(t, 0)
      totalHours == clampedT \div (1000 * 60 * 60)
  IN  IF isNaN(endtime) THEN NaNTimeObject(showSeconds)
      ELSE
      [Total |-> t,
       keys |-> IF showSeconds THEN <<"Days", "Hours", "Minutes", "Seconds">>
                ELSE <<"Days", "Hours", "Minutes">>,
       val |-> [k \in {"Days", "Hours", "Minutes", "Seconds"} |->
                  CASE k = "Days" -> clampedT \div (1000 * 60 * 60 * 24)
                    [] k = "Hours" -> ((totalHours % 24) + 24) % 24
                    [] k = "Minutes" -> (clampedT \div (1000 * 60)) % 60
                    [] OTHER -> IF clampedT = 0 THEN 0 ELSE (clampedT \div 1000) % 60]]

getTime(t0, twelveHour, showSeconds) ==
  LET getHours == (t0 \div (1000 * 60 * 60)) % 24
      hours == IF twelveHour
               THEN (IF getHours % 12 = 0 THEN 12 ELSE getHours % 12)
               ELSE getHours
  IN  [Total |-> t0,
       keys |-> IF showSeconds THEN <<"Hours", "Minutes", "Seconds">>
                ELSE <<"Hours", "Minutes">>,
       val |-> [k \in {"Days", "Hours", "Minutes", "Seconds"} |->
                  CASE k = "Hours" -> hours
                    [] k = "Minutes" -> (t0 \div (1000 * 60)) % 60
                    [] k = "Seconds" -> (t0 \div 1000) % 60
                    [] OTHER -> 0]]

\* the countdown string the constructor keeps, as the instant it parses to:
\* Date.prototype.toString drops the milliseconds, toISOString keeps them
normaliseCountdown(v, target) ==
  IF isNaN(target) THEN NaN
  ELSE IF v = "index" THEN target ELSE target - (target % 1000)

\* updateFn(countdown) of a clock with options o read at instant t0
updateFn(v, o, t0) ==
  IF o.hasCountdown
  THEN IF v = "index"
       THEN getTimeRemainingI(normaliseCountdown(v, o.countdown), t0, o.showSeconds)
       ELSE getTimeRemainingW(normaliseCountdown(v, o.countdown), t0, o.showSeconds)
  ELSE getTime(t0, o.twelveHour, o.showSeconds)

(***************************************************************************)
(* A tracker used on its own: the caller constructs it, calls update and   *)
(* destroy in any order, and the browser runs the queued callbacks.        *)
(***************************************************************************)
\* the values a caller passes to update
TrackerValues ==
  IF variant = "index" THEN {0, 9, 10, 59, 10000, -1, NaN}
  ELSE {0, 9, 10, 23, 29, 30, 59, 123, -1, NaN}
TrackerLabels == {"Seconds", "Minutes", "Hours", "Days"}
\* the constructions of a tracker: label, initial value, type, animation
TrackerConfigs(v) ==
  IF v = "index"
  THEN {<<"Seconds", 59, "countdown", [duration |-> ANIMATION_DURATION, direction |-> "auto"]>>,
        <<"Seconds", 59, "clock", [duration |-> ANIMATION_DURATION, direction |-> "auto"]>>,
        <<"Seconds", 59, "countdown", [duration |-> ANIMATION_DURATION, direction |-> "up"]>>,
        <<"Hours", 59, "clock", [duration |-> ANIMATION_DURATION, direction |-> "down"]>>,
        <<"Minutes", 59, "clock", [duration |-> ANIMATION_DURATION, direction |-> "up"]>>,
        <<"Minutes", 59, "countdown", [duration |-> ANIMATION_DURATION, direction |-> "down"]>>,
        <<"Seconds", 59, "countdown", [duration |-> ANIMATION_DURATION, direction |-> "omitted"]>>,
        <<"Seconds", 59, "clock", [duration |-> ANIMATION_DURATION, direction |-> "omitted"]>>,
        <<"Seconds", 59, "countdown", [duration |-> 0, direction |-> "auto"]>>,
        <<"Seconds", 59, "clock", [duration |-> 0 - 1, direction |-> "auto"]>>,
        <<"Minutes", NaN, "clock", [duration |-> ANIMATION_DURATION, direction |-> "auto"]>>,
        <<"Days", -1, "countdown", [duration |-> ANIMATION_DURATION, direction |-> "auto"]>>}
  ELSE {<<label, value, "countdown",
          [duration |-> ANIMATION_DURATION, direction |-> "auto"]>> :
          label \in TrackerLabels, value \in {59, -1, NaN}}

NoOptions ==
  [hasCountdown |-> FALSE, countdown |-> 0, showSeconds |-> FALSE,
   earlyCompletionMs |-> <<>>, twelveHour |-> FALSE]

\* handles the browser still holds for tracker u: pending completion timers
\* and animations whose controller is not aborted
Outstanding(w, u) ==
  {<<t.slot, t.id>> : t \in {x \in w.timers : x.kind = "animation" /\ x.unit = u}}
    \cup {<<a.slot, a.id>> : a \in {x \in w.anims : x.unit = u /\ ~x.aborted}}

\* history of the last step: the operation, its tracker and argument, the
\* tracker's value, handles and destroyed flag before it, and for a queued
\* callback the slot and whether its transition had been cancelled
Op(name, u, val, w, slot, cancelled) ==
  [op |-> name, unit |-> u, val |-> val, slot |-> slot, cancelled |-> cancelled,
   old |-> IF u \in DOMAIN w.trackers THEN w.trackers[u].currentValue ELSE 0,
   before |-> IF u \in DOMAIN w.trackers THEN Cardinality(Outstanding(w, u)) ELSE 0,
   wasDestroyed |-> IF u \in DOMAIN w.trackers THEN w.trackers[u].destroyed ELSE FALSE,
   calls |-> <<>>, worked |-> FALSE, completed |-> FALSE, threw |-> FALSE,
   warned |-> FALSE, destroys |-> <<>>, steps |-> <<>>]

SetWorld(w) ==
  /\ trackers' = w.trackers
  /\ timers' = w.timers
  /\ anims' = w.anims

InitTracker ==
  /\ variant \in Variants
  /\ \E c \in TrackerConfigs(variant) :
       /\ trackers = (c[1] :> NewTracker(variant, c[1], c[2], c[3], c[4]))
       /\ lastOp = [Op("new", "", 0, [trackers |-> <<>>, timers |-> {}, anims |-> {}], "", FALSE)
                      EXCEPT !.unit = c[1], !.val = c[2]]
  /\ timers = {}
  /\ anims = {}
  /\ rafs = {}
  /\ now = 0
  /\ opts = NoOptions
  /\ clockKeys = <<>>
  /\ animationFrameId = 0
  /\ frameCounter = 0
  /\ isDestroyed = FALSE
  /\ isTimeReached = FALSE
  /\ animationTimeouts = {}
  /\ callbackCount = 0
  /\ destroyCalled = FALSE
  /\ workTicks = 0

\* update(val) writes a diagnostic with console.warn
warns(v, val) == v = "index" /\ InvalidI(val)

\* tracker.update(val)
TrackerUpdate(u, val) ==
  /\ Cardinality(update(World, u, val).anims) <= MaxAnims
  /\ SetWorld(update(World, u, val))
  /\ lastOp' = [Op("update", u, val, World, "", FALSE) EXCEPT !.warned = warns(variant, val)]
  /\ UNCHANGED <<variant, clockVars>>

\* tracker.destroy()
TrackerDestroy(u) ==
  /\ SetWorld(destroy(World, u))
  /\ lastOp' = Op("destroy", u, 0, World, "", FALSE)
  /\ UNCHANGED <<variant, clockVars>>

\* the browser runs the completion timer of a wheel (wheel-clock.ts)
AnimationTimeout(t) ==
  /\ t.kind = "animation"
  /\ SetWorld(animationTimeoutW(World, t))
  /\ lastOp' = Op("timeout", t.unit, 0, World, t.slot, t.cancelled)
  /\ UNCHANGED <<variant, clockVars>>

\* both animations of a transition reach their end (index.ts); the browser
\* drains the queued promise handlers before it runs its next task, so no
\* animation ends while a catch-handler is still queued
AnimationFinish(a) ==
  /\ a.phase = "running"
  /\ \A b \in anims : b.phase # "rejected"
  /\ anims' = (anims \ {a}) \cup {[a EXCEPT !.phase = "finished"]}
  /\ lastOp' = Op("finish", a.unit, 0, World, a.slot, a.cancelled)
  /\ UNCHANGED <<variant, trackers, timers, clockVars>>

\* the browser runs the then-handler of a finished transition (index.ts)
AnimationThen(a) ==
  /\ a.phase = "finished"
  /\ SetWorld(thenHandler(World, a))
  /\ lastOp' = Op("then", a.unit, 0, World, a.slot, a.cancelled)
  /\ UNCHANGED <<variant, clockVars>>

\* the browser runs the catch-handler of a cancelled transition (index.ts)
AnimationCatch(a) ==
  /\ a.phase = "rejected"
  /\ SetWorld(catchHandler(World, a))
  /\ lastOp' = Op("catch", a.unit, 0, World, a.slot, a.cancelled)
  /\ UNCHANGED <<variant, clockVars>>

NextTracker ==
  \/ \E u \in DOMAIN trackers, val \in TrackerValues : TrackerUpdate(u, val)
  \/ \E u \in DOMAIN trackers : TrackerDestroy(u)
  \/ \E t \in timers : AnimationTimeout(t)
  \/ \E a \in anims : AnimationFinish(a)
  \/ \E a \in anims : AnimationThen(a)
  \/ \E a \in anims : AnimationCatch(a)

SpecTracker == InitTracker /\ [][NextTracker]_vars

\* a live tracker of index.ts on its own, updated with values update accepts
InitTrackerI == InitTracker /\ variant = "index"

AcceptedValues == {v \in TrackerValues : ~InvalidI(v)}

NextTrackerI ==
  \/ \E u \in DOMAIN trackers, val \in AcceptedValues : TrackerUpdate(u, val)
  \/ \E a \in anims : AnimationFinish(a)
  \/ \E a \in anims : AnimationThen(a)
  \/ \E a \in anims : AnimationCatch(a)

\* every animation the browser runs reaches its end, and every promise
\* handler the browser has queued is run
SpecTrackerFair ==
  /\ InitTrackerI
  /\ [][NextTrackerI]_vars
  /\ WF_vars(\E a \in anims : AnimationFinish(a))
  /\ WF_vars(\E a \in anims : AnimationThen(a))
  /\ WF_vars(\E a \in anims : AnimationCatch(a))

\* a tracker of wheel-clock.ts on its own
InitTrackerW == InitTracker /\ variant = "wheel-clock"

NextTrackerW ==
  \/ \E u \in DOMAIN trackers, val \in TrackerValues : TrackerUpdate(u, val)
  \/ \E u \in DOMAIN trackers : TrackerDestroy(u)
  \/ \E t \in timers : AnimationTimeout(t)

\* every timer the browser holds for a wheel fires once its delay has passed
SpecTrackerWFair ==
  /\ InitTrackerW
  /\ [][NextTrackerW]_vars
  /\ \A s \in WheelTypes : WF_vars(\E t \in timers : t.slot = s /\ AnimationTimeout(t))

(***************************************************************************)
(* Clock.  The state after construction: the trackers of the first         *)
(* breakdown, the start-delay timer pending, no refresh callback           *)
(* registered.  A callback option is always given; callbackCount counts    *)
(* its invocations.  The browser runs a timer or refresh callback only     *)
(* when no promise handler is queued.                                      *)
(***************************************************************************)
\* the constructions of a clock: the options of new Clock(options)
ClockConfigs(v) ==
  LET Countdown(target, showSeconds, early) ==
        [hasCountdown |-> TRUE, countdown |-> target, showSeconds |-> showSeconds,
         earlyCompletionMs |-> early, twelveHour |-> FALSE]
      WallClock(twelveHour, showSeconds) ==
        [hasCountdown |-> FALSE, countdown |-> 0, showSeconds |-> showSeconds,
         earlyCompletionMs |-> <<>>, twelveHour |-> twelveHour]
  IN  {Countdown(0 - 5000, TRUE, <<>>), Countdown(0 - 5000, FALSE, <<>>),
       Countdown(45500, TRUE, <<>>), Countdown(45500, FALSE, <<>>),
       Countdown(90000, TRUE, <<>>),
       Countdown(NaN, TRUE, <<>>),
       WallClock(FALSE, TRUE), WallClock(TRUE, FALSE)}
      \cup (IF v = "index"
            THEN {[WallClock(FALSE, FALSE) EXCEPT !.earlyCompletionMs = <<60000>>],
                  Countdown(0 - 5000, FALSE, <<60000>>),
                  Countdown(45500, FALSE, <<60000>>),
                  Countdown(45500, TRUE, <<60000>>),
                  Countdown(50000, TRUE, <<60000>>),
                  Countdown(90000, FALSE, <<60000>>)}
            ELSE {})

RECURSIVE createTrackers(_, _, _, _)
createTrackers(v, timeObject, isCountdown, i) ==
  IF i > Len(timeObject.keys) THEN <<>>
  ELSE LET key == timeObject.keys[i]
       IN  (key :> NewTracker(v, key, timeObject.val[key],
                              IF isCountdown THEN "countdown" ELSE "clock",
                              [duration |-> ANIMATION_DURATION, direction |-> "auto"]))
             @@ createTrackers(v, timeObject, isCountdown, i + 1)

\* new Date(NaN).toISOString() throws a RangeError: the constructor of
\* index.ts does not return for a countdown string that does not parse
ConstructorThrows(v, o) == v = "index" /\ o.hasCountdown /\ isNaN(o.countdown)

\* the mutant: the constructor also runs the refresh callback at once
InitClock_NoDelay ==
  /\ variant \in Variants
  /\ opts \in ClockConfigs(variant)
  /\ now = 0
  /\ IF ConstructorThrows(variant, opts)
     THEN /\ trackers = <<>>
          /\ clockKeys = <<>>
          /\ timers = {}
          /\ animationTimeouts = {}
          /\ lastOp = [Op("new", "", 0, [trackers |-> <<>>, timers |-> {}, anims |-> {}], "", FALSE)
                         EXCEPT !.threw = TRUE]
     ELSE /\ trackers = createTrackers(variant, updateFn(variant, opts, now), opts.hasCountdown, 1)
          /\ clockKeys = updateFn(variant, opts, now).keys
          /\ timers = {[id |-> 1, kind |-> "start", unit |-> "", slot |-> "",
                        delay |-> INITIAL_DELAY, cancelled |-> FALSE]}
          /\ animationTimeouts = IF variant = "index" THEN {1} ELSE {}
          /\ lastOp = Op("new", "", 0, [trackers |-> <<>>, timers |-> {}, anims |-> {}], "", FALSE)
  /\ anims = {}
  /\ rafs = {1}
  /\ animationFrameId = 1
  /\ frameCounter = 1
  /\ isDestroyed = FALSE
  /\ isTimeReached = FALSE
  /\ callbackCount = 0
  /\ destroyCalled = FALSE
  /\ workTicks = 0

InitClock ==
  /\ variant \in Variants
  /\ opts \in ClockConfigs(variant)
  /\ now = 0
  /\ IF ConstructorThrows(variant, opts)
     THEN /\ trackers = <<>>
          /\ clockKeys = <<>>
          /\ timers = {}
          /\ animationTimeouts = {}
          /\ lastOp = [Op("new", "", 0, [trackers |-> <<>>, timers |-> {}, anims |-> {}], "", FALSE)
                         EXCEPT !.threw = TRUE]
     ELSE /\ trackers = createTrackers(variant, updateFn(variant, opts, now), opts.hasCountdown, 1)
          /\ clockKeys = updateFn(variant, opts, now).keys
          /\ timers = {[id |-> 1, kind |-> "start", unit |-> "", slot |-> "",
                        delay |-> INITIAL_DELAY, cancelled |-> FALSE]}
          /\ animationTimeouts = IF variant = "index" THEN {1} ELSE {}
          /\ lastOp = Op("new", "", 0, [trackers |-> <<>>, timers |-> {}, anims |-> {}], "", FALSE)
  /\ anims = {}
  /\ rafs = {}
  /\ animationFrameId = 0
  /\ frameCounter = 0
  /\ isDestroyed = FALSE
  /\ isTimeReached = FALSE
  /\ callbackCount = 0
  /\ destroyCalled = FALSE
  /\ workTicks = 0

\* the registrations of the clock the browser still holds
ClockPending == {t \in timers : t.kind = "start"} \cup rafs

InMap(u) == \E i \in 1..Len(clockKeys) : clockKeys[i] = u

\* what the step did: old counts the trackers of the map away from 0 before it
ClockOp(name, total, calls, worked, completed) ==
  [op |-> name, unit |-> "", val |-> total, slot |-> "", cancelled |-> FALSE,
   old |-> Cardinality({u \in DOMAIN trackers : InMap(u) /\ trackers[u].currentValue # 0}),
   before |-> Cardinality(ClockPending), wasDestroyed |-> destroyCalled,
   calls |-> calls, worked |-> worked, completed |-> completed, threw |-> FALSE,
   warned |-> FALSE, destroys |-> <<>>, steps |-> <<>>]

\* the mutant: the threshold is earlyCompletionMs even when seconds are shown
shouldCompleteCountdown_IgnoreSeconds(timeObject) ==
  LET threshold == IF opts.earlyCompletionMs # <<>> THEN opts.earlyCompletionMs[1] ELSE 0
  IN  Lt(timeObject.Total, threshold)

shouldCompleteCountdown(timeObject) ==
  LET totalMs == timeObject.Total
      threshold == IF ~opts.showSeconds /\ opts.earlyCompletionMs # <<>>
                   THEN opts.earlyCompletionMs[1] ELSE 0
  IN  Lt(totalMs, threshold)

\* the mutant: the countdown string is not consulted
CompletionDue_NoCountdownTest(timeObject) ==
  IF variant = "index" THEN shouldCompleteCountdown(timeObject)
  ELSE Lt(timeObject.Total, 0)

\* the completion test of the update closure
CompletionDue(timeObject) ==
  /\ opts.hasCountdown
  /\ IF variant = "index" THEN shouldCompleteCountdown(timeObject)
     ELSE Lt(timeObject.Total, 0)

\* tracker.update(value) for each given key whose tracker is in the map
RECURSIVE updateEach(_, _, _, _)
updateEach(w, keys, val, i) ==
  IF i > Len(keys) THEN w
  ELSE updateEach(IF InMap(keys[i]) THEN update(w, keys[i], val[keys[i]]) ELSE w,
                  keys, val, i + 1)

\* the mutant: the last field of the breakdown is not forwarded
updateTrackers_SkipLast(w, timeObject) ==
  updateEach(w, SubSeq(timeObject.keys, 1, Len(timeObject.keys) - 1), timeObject.val, 1)

updateTrackers(w, timeObject) == updateEach(w, timeObject.keys, timeObject.val, 1)

\* the mutant: the trackers are left as they are
resetTrackers_Skip(w) == w

\* Object.values(this.trackers).forEach((tracker) => tracker.update(0))
resetTrackers(w) == updateEach(w, clockKeys, [k \in {"Days", "Hours", "Minutes", "Seconds"} |-> 0], 1)

Calls(keys, val) ==
  LET live == SelectSeq(keys, LAMBDA k : InMap(k))
  IN  [i \in 1..Len(live) |-> <<live[i], val[live[i]]>>]

\* the mutant: the callback is invoked first, the cleanup follows
handleCountdownCompleteSteps_CallbackFirst(w, registered, frameId, count) ==
  LET cancelled == IF frameId # 0 THEN registered \ {frameId} ELSE registered
      Stmt(stmt, w1, r, id, c) ==
        [stmt |-> stmt, w |-> w1, rafs |-> r, animationFrameId |-> id, callbackCount |-> c]
  IN  <<Stmt("callback", w, registered, frameId, count + 1),
        Stmt("cancelAnimationFrame", w, cancelled, 0, count + 1),
        Stmt("update(0)", resetTrackers(w), cancelled, 0, count + 1)>>

\* the statements of handleCountdownComplete in the order the code runs
\* them, each with the state right after it: the trackers, the refresh
\* registrations the browser holds, this.animationFrameId and the number of
\* invocations of the completion callback
handleCountdownCompleteSteps(w, registered, frameId, count) ==
  LET cancelled == IF frameId # 0 THEN registered \ {frameId} ELSE registered
      Stmt(stmt, w1, r, id, c) ==
        [stmt |-> stmt, w |-> w1, rafs |-> r, animationFrameId |-> id, callbackCount |-> c]
      \* reset is the world the forEach of update(0) leaves
      Stmts(reset) ==
        <<Stmt("cancelAnimationFrame", w, cancelled, 0, count),
          Stmt("update(0)", reset, cancelled, 0, count),
          Stmt("callback", reset, cancelled, 0, count + 1)>>
  IN  Stmts(resetTrackers(w))

\* what a statement of the completion handler left behind: the registrations,
\* the trackers of the map away from 0, the invocations of the callback
StepSummary(step) ==
  [stmt |-> step.stmt, rafs |-> step.rafs, animationFrameId |-> step.animationFrameId,
   nonzero |-> {u \in DOMAIN step.w.trackers :
                  InMap(u) /\ step.w.trackers[u].currentValue # 0},
   callbackCount |-> step.callbackCount]

\* the mutant: every refresh callback does the work
IsWorkFrame_Always(counter) == TRUE

\* ++this.frameCounter % CONSTANTS.UPDATE_THROTTLE !== 0 is false: the
\* callback goes on to compute the breakdown
IsWorkFrame(counter) == counter % UPDATE_THROTTLE = 0

\* the mutant: the latch is not consulted and the registration is kept
LoopUpdate_NoStop(name, timers0, rafs0, ats0) ==
  \E k \in 0..MaxNowSteps :
    LET requested == MinFree((rafs0 \cup {animationFrameId}) \ {0})
        counter == frameCounter + 1
        isWork == IsWorkFrame(counter)
        t1 == now + k * TimeStep
        timeObject == updateFn(variant, opts, t1)
        w0 == [trackers |-> trackers, timers |-> timers0, anims |-> anims]
        due == isWork /\ CompletionDue(timeObject)
        w1 == IF due THEN resetTrackers(w0)
              ELSE IF isWork THEN updateTrackers(w0, timeObject) ELSE w0
    IN  /\ isWork \/ k = 0
        /\ t1 <= MaxNowSteps * TimeStep
        /\ frameCounter < MaxFrames
        /\ now' = t1
        /\ frameCounter' = counter
        /\ workTicks' = IF isWork THEN workTicks + 1 ELSE workTicks
        /\ animationTimeouts' = ats0
        /\ rafs' = rafs0 \cup {requested}
        /\ animationFrameId' = requested
        /\ isTimeReached' = (isTimeReached \/ (due /\ variant = "index"))
        /\ callbackCount' = IF due THEN callbackCount + 1 ELSE callbackCount
        /\ SetWorld(w1)
        /\ lastOp' = ClockOp(name, IF isWork THEN timeObject.Total ELSE 0,
                             <<>>, isWork, due)
        /\ UNCHANGED <<variant, opts, clockKeys, isDestroyed, destroyCalled>>

\* the closure update of startUpdateLoop, run by the start-delay timer or as
\* a refresh callback; timers0, rafs0 and ats0 are the pending timers, the
\* pending refresh registrations and this.animationTimeouts at its entry.
\* The time source is read on work ticks only, so it advances there.
LoopUpdate(name, timers0, rafs0, ats0) ==
  IF variant = "index" /\ isDestroyed
  THEN /\ timers' = timers0
       /\ rafs' = rafs0
       /\ animationTimeouts' = ats0
       /\ lastOp' = ClockOp(name, 0, <<>>, FALSE, FALSE)
       /\ UNCHANGED <<variant, trackers, anims, now, opts, clockKeys, animationFrameId,
                      frameCounter, isDestroyed, isTimeReached, callbackCount,
                      destroyCalled, workTicks>>
  ELSE \E k \in 0..MaxNowSteps :
    LET requested == MinFree((rafs0 \cup {animationFrameId}) \ {0})
        counter == frameCounter + 1
        isWork == IsWorkFrame(counter)
        t1 == now + k * TimeStep
        timeObject == updateFn(variant, opts, t1)
        w0 == [trackers |-> trackers, timers |-> timers0, anims |-> anims]
        due == isWork /\ CompletionDue(timeObject)
        \* handleCountdownComplete runs unless the latch of index.ts is set
        completes == due /\ ~(variant = "index" /\ isTimeReached)
    IN  \E done \in {handleCountdownCompleteSteps(w0, rafs0 \cup {requested}, requested,
                                                  callbackCount)} :
        \E final \in {done[Len(done)]} :
        \E w1 \in {IF completes THEN final.w
                    ELSE IF isWork /\ ~due THEN updateTrackers(w0, timeObject)
                    ELSE w0} :
        /\ isWork \/ k = 0
        /\ t1 <= MaxNowSteps * TimeStep
        /\ frameCounter < MaxFrames
        /\ now' = t1
        /\ frameCounter' = counter
        /\ workTicks' = IF isWork THEN workTicks + 1 ELSE workTicks
        /\ animationTimeouts' = ats0
        /\ rafs' = IF completes THEN final.rafs ELSE rafs0 \cup {requested}
        /\ animationFrameId' = IF completes THEN final.animationFrameId ELSE requested
        /\ isTimeReached' = (isTimeReached \/ (due /\ variant = "index"))
        /\ callbackCount' = IF completes THEN final.callbackCount ELSE callbackCount
        /\ SetWorld(w1)
        /\ lastOp' = [ClockOp(name, IF isWork THEN timeObject.Total ELSE 0,
                              IF completes THEN Calls(clockKeys, [u \in {"Days", "Hours", "Minutes", "Seconds"} |-> 0])
                              ELSE IF isWork /\ ~due THEN Calls(timeObject.keys, timeObject.val)
                              ELSE <<>>,
                              isWork, completes)
                        EXCEPT !.steps = IF completes
                                         THEN [i \in 1..Len(done) |-> StepSummary(done[i])]
                                         ELSE <<>>]
        /\ UNCHANGED <<variant, opts, clockKeys, isDestroyed, destroyCalled>>

NoHandlerQueued == \A a \in anims : a.phase = "running"

\* the start-delay timer fires
StartDelay(t) ==
  /\ t.kind = "start"
  /\ NoHandlerQueued
  /\ IF variant = "index" /\ isDestroyed
     THEN /\ timers' = timers \ {t}
          /\ lastOp' = ClockOp("start", 0, <<>>, FALSE, FALSE)
          /\ UNCHANGED <<variant, trackers, anims, clockVars>>
     ELSE LoopUpdate("start", timers \ {t}, rafs,
                     IF variant = "index" THEN animationTimeouts \ {t.id}
                     ELSE animationTimeouts)

\* the browser runs a registered refresh callback
Frame(r) ==
  /\ NoHandlerQueued
  /\ LoopUpdate("frame", timers, rafs \ {r}, animationTimeouts)

RECURSIVE destroyEach(_, _, _)
destroyEach(w, keys, i) ==
  IF i > Len(keys) THEN w
  ELSE destroyEach(destroy(w, keys[i]), keys, i + 1)

\* the mutant: the start-delay timers are forgotten, not cleared
ClockDestroy_NoClear ==
  /\ ~ConstructorThrows(variant, opts)
  /\ isDestroyed' = (variant = "index")
  /\ destroyCalled' = TRUE
  /\ rafs' = rafs \ {animationFrameId}
  /\ animationFrameId' = 0
  /\ animationTimeouts' = {}
  /\ SetWorld(destroyEach(World, clockKeys, 1))
  /\ clockKeys' = IF variant = "index" THEN clockKeys ELSE <<>>
  /\ lastOp' = [ClockOp("clockDestroy", 0, <<>>, FALSE, FALSE) EXCEPT !.destroys = clockKeys]
  /\ UNCHANGED <<variant, now, opts, frameCounter, isTimeReached, callbackCount, workTicks>>

\* the mutant: destroy() also resets the completed flag
ClockDestroy_ResetLatch ==
  /\ ~ConstructorThrows(variant, opts)
  /\ isDestroyed' = (variant = "index")
  /\ destroyCalled' = TRUE
  /\ rafs' = rafs \ {animationFrameId}
  /\ animationFrameId' = 0
  /\ animationTimeouts' = {}
  /\ SetWorld(destroyEach([World EXCEPT !.timers = {t \in @ : t.id \notin animationTimeouts}],
                          clockKeys, 1))
  /\ clockKeys' = IF variant = "index" THEN clockKeys ELSE <<>>
  /\ lastOp' = [ClockOp("clockDestroy", 0, <<>>, FALSE, FALSE) EXCEPT !.destroys = clockKeys]
  /\ UNCHANGED <<variant, now, opts, frameCounter, callbackCount, workTicks>>
  /\ isTimeReached' = FALSE

\* clock.destroy(), on a clock the constructor returned
ClockDestroy ==
  /\ ~ConstructorThrows(variant, opts)
  /\ isDestroyed' = (variant = "index")
  /\ destroyCalled' = TRUE
  /\ rafs' = rafs \ {animationFrameId}
  /\ animationFrameId' = 0
  /\ animationTimeouts' = {}
  /\ SetWorld(destroyEach([World EXCEPT !.timers = {t \in @ : t.id \notin animationTimeouts}],
                          clockKeys, 1))
  /\ clockKeys' = IF variant = "index" THEN clockKeys ELSE <<>>
  /\ lastOp' = [ClockOp("clockDestroy", 0, <<>>, FALSE, FALSE) EXCEPT !.destroys = clockKeys]
  /\ UNCHANGED <<variant, now, opts, frameCounter, isTimeReached, callbackCount, workTicks>>

NextClock ==
  \/ \E t \in timers : StartDelay(t)
  \/ \E r \in rafs : Frame(r)
  \/ ClockDestroy
  \/ \E t \in timers : AnimationTimeout(t)
  \/ \E a \in anims : AnimationFinish(a)
  \/ \E a \in anims : AnimationThen(a)
  \/ \E a \in anims : AnimationCatch(a)

SpecClock == InitClock /\ [][NextClock]_vars

(***************************************************************************)
(* Properties of a tracker (SpecTracker).                                  *)
(***************************************************************************)
\* the slots whose digit differs between two values (wheel-clock.ts)
ChangedSlotsW(old, new) == {s \in WheelTypes : DigitOfW(s, old) # DigitOfW(s, new)}

\* the last step was update(new) on a wheel-clock.ts tracker of one of the
\* labels, whose value was old
UpdatedW(labels, old, new) ==
  /\ variant = "wheel-clock"
  /\ lastOp.op = "update"
  /\ trackers[lastOp.unit].label \in labels
  /\ StrictEq(lastOp.old, old)
  /\ StrictEq(lastOp.val, new)

\* every changed slot of the tracker last updated carries exactly the class
\* and holds a pending completion timer
RollsW(old, new, class) ==
  \A s \in ChangedSlotsW(old, new) :
    /\ trackers[lastOp.unit].classes[s] = {class}
    /\ \E t \in timers : /\ t.kind = "animation" /\ t.unit = lastOp.unit /\ t.slot = s
                         /\ t.id = trackers[lastOp.unit].animationTimeouts[s]

\* C1: in wheel-clock.ts, update 59 -> 0 on a Seconds or Minutes tracker and
\* 23 -> 0 on an Hours tracker roll every changed slot up (wheel-increasing);
\* 0 -> 59 and 0 -> 23 roll every changed slot down (wheel-decreasing)
C1_UnitWrapDirection ==
  /\ UpdatedW({"Seconds", "Minutes"}, 59, 0) => RollsW(59, 0, "wheel-increasing")
  /\ UpdatedW({"Seconds", "Minutes"}, 0, 59) => RollsW(0, 59, "wheel-decreasing")
  /\ UpdatedW({"Hours"}, 23, 0) => RollsW(23, 0, "wheel-increasing")
  /\ UpdatedW({"Hours"}, 0, 23) => RollsW(0, 23, "wheel-decreasing")

C1_Witness ==
  /\ UpdatedW({"Seconds"}, 59, 0)
  /\ ChangedSlotsW(59, 0) = WheelTypes
  /\ \A s \in WheelTypes : trackers[lastOp.unit].classes[s] = {"wheel-increasing"}

\* C2: once destroy() has been called, every later update(v) is a no-op: it
\* changes neither the tracker nor the browser's timers and animations
C2_UpdateAfterDestroyIsNoOp ==
  [][(lastOp'.op = "update" /\ lastOp'.wasDestroyed)
       => (trackers' = trackers /\ timers' = timers /\ anims' = anims)]_vars

\* the active transition handles of a slot: pending completion timers
\* (wheel-clock.ts), animations whose controller is not aborted (index.ts)
ActiveHandles(u, s) ==
  {t \in timers : t.kind = "animation" /\ t.unit = u /\ t.slot = s}
    \cup {a \in anims : a.unit = u /\ a.slot = s /\ ~a.aborted}

\* C3: each slot has at most one active transition handle, and it is the
\* handle of the slot's latest transition: the one the handle map holds,
\* which no later transition or destroy has cancelled
C3_OneActiveHandlePerSlot ==
  \A u \in DOMAIN trackers : \A s \in WheelTypes :
    /\ Cardinality(ActiveHandles(u, s)) <= 1
    /\ \A h \in ActiveHandles(u, s) : h.id = HandleMap(trackers[u])[s] /\ ~h.cancelled

\* a second update has replaced a transition in flight on the ones wheel,
\* and the new transition is the only active one
C3_Witness ==
  /\ lastOp.op = "update"
  /\ lastOp.before >= 1
  /\ \E h \in ActiveHandles(lastOp.unit, "ones") : ~h.cancelled
  /\ \/ \E a \in anims : a.unit = lastOp.unit /\ a.slot = "ones" /\ a.cancelled
     \/ /\ variant = "wheel-clock"
        /\ DigitOfW("ones", lastOp.old) # DigitOfW("ones", lastOp.val)

\* what a cancelled completion handler must leave alone: the handle maps,
\* the direction classes and the digit each wheel displays
Displayed(tr) ==
  [s \in WheelTypes |->
     IF variant = "index"
     THEN (IF Len(tr.divs[s]) >= 1 THEN tr.divs[s][1] ELSE <<>>)
     ELSE String(tr.dataValue[s])]

Visible ==
  [u \in DOMAIN trackers |->
     [map |-> HandleMap(trackers[u]),
      classes |-> trackers[u].classes,
      displayed |-> Displayed(trackers[u]),
      value |-> trackers[u].currentValue]]

\* C4: the completion handler of a cancelled transition has no effect: no
\* cancelled completion timer stays pending, and a then- or catch-handler of
\* a cancelled transition changes no handle map, class or displayed digit
C4_CancelledHandlerIsNoOp ==
  /\ [](\A t \in timers : ~t.cancelled)
  /\ [][(lastOp'.op \in {"timeout", "then", "catch"} /\ lastOp'.cancelled)
          => Visible' = Visible]_vars

\* the then-handler of a transition that finished and was then cancelled by
\* an update has just run while the newer transition is in flight
C4_Witness ==
  /\ lastOp.op = "then"
  /\ lastOp.cancelled
  /\ trackers[lastOp.unit].animationControllers[lastOp.slot] # 0
  /\ \E a \in anims : a.unit = lastOp.unit /\ a.slot = lastOp.slot /\ ~a.aborted

\* C5: right after destroy() returns the tracker has no outstanding handle
\* and its handle map is empty
C5_DestroyReleasesAll ==
  lastOp.op = "destroy" =>
    /\ Outstanding(World, lastOp.unit) = {}
    /\ HandleMap(trackers[lastOp.unit]) = NoHandles

\* destroy() ran while both slots were in transition
C5_Witness ==
  /\ lastOp.op = "destroy"
  /\ lastOp.before = 2
  /\ Outstanding(World, lastOp.unit) = {}

(***************************************************************************)
(* Properties of a clock (SpecClock).                                      *)
(***************************************************************************)
\* C6: in src/index.ts, after Clock.destroy() no start-delay timer or refresh
\* callback of the clock remains pending, and nothing later increments the
\* tick counter, computes a breakdown, updates a tracker or invokes the
\* completion callback.
C6_DestroyStopsClock ==
  /\ []((variant = "index" /\ destroyCalled) => ClockPending = {})
  /\ [][(variant = "index" /\ destroyCalled) =>
          /\ frameCounter' = frameCounter
          /\ workTicks' = workTicks
          /\ callbackCount' = callbackCount
          /\ lastOp'.calls = <<>>
          /\ \A u \in DOMAIN trackers :
               trackers'[u].currentValue = trackers[u].currentValue]_vars

\* C6: destroy() was called between refresh callbacks, one being registered
C6_Witness ==
  /\ variant = "index"
  /\ lastOp.op = "clockDestroy"
  /\ ~lastOp.wasDestroyed
  /\ lastOp.before = 1
  /\ frameCounter > 0
  /\ callbackCount = 0

\* C7: in src/wheel-clock.ts, after Clock.destroy() (also before the 500 ms
\* start delay has elapsed) no start-delay timer or refresh callback of the
\* clock remains pending, and nothing later increments the tick counter,
\* computes a breakdown, updates a tracker or invokes the completion callback.
C7_DestroyStopsClock ==
  /\ []((variant = "wheel-clock" /\ destroyCalled) => ClockPending = {})
  /\ [][(variant = "wheel-clock" /\ destroyCalled) =>
          /\ frameCounter' = frameCounter
          /\ workTicks' = workTicks
          /\ callbackCount' = callbackCount
          /\ lastOp'.calls = <<>>
          /\ \A u \in DOMAIN trackers :
               trackers'[u].currentValue = trackers[u].currentValue]_vars

PastTarget == opts.hasCountdown /\ Lt(normaliseCountdown(variant, opts.countdown), 0)

\* C8: a countdown clock whose target is already in the past has invoked the
\* completion callback once its first work tick has run, and never invokes
\* it a second time.
C8_PastTargetCompletesOnce ==
  /\ (PastTarget /\ workTicks >= 1) => callbackCount = 1
  /\ PastTarget => callbackCount <= 1

\* C8: the first work tick of a clock with a past target invoked the callback
C8_Witness ==
  /\ PastTarget
  /\ lastOp.op = "frame"
  /\ lastOp.worked
  /\ lastOp.completed
  /\ workTicks = 1
  /\ callbackCount = 1

\* C9: the work tick that declares completion leaves the current value of
\* every tracker of the clock at 0, and after completion no step of the loop
\* forwards a value to a tracker or changes a tracker's current value.
C9_CompletionZeroesTrackers ==
  /\ [](lastOp.completed =>
          \A i \in 1..Len(clockKeys) : trackers[clockKeys[i]].currentValue = 0)
  /\ [][callbackCount >= 1 =>
          /\ lastOp'.calls = <<>>
          /\ \A u \in DOMAIN trackers :
               trackers'[u].currentValue = trackers[u].currentValue]_vars

\* C9: completion was declared while some tracker was away from 0
C9_Witness ==
  /\ lastOp.completed
  /\ lastOp.old > 0
  /\ clockKeys # <<>>
  /\ \A i \in 1..Len(clockKeys) : trackers[clockKeys[i]].currentValue = 0

\* C10: in src/index.ts, with showSeconds false and no earlyCompletionMs
\* given, a work tick that reads a signed total above 0 and below 60000
\* declares completion.
C10_DefaultEarlyCompletion ==
  (/\ variant = "index"
   /\ opts.hasCountdown
   /\ ~opts.showSeconds
   /\ opts.earlyCompletionMs = <<>>
   /\ lastOp.op \in {"start", "frame"}
   /\ lastOp.worked
   /\ lastOp.val > 0
   /\ lastOp.val < 60000)
  => lastOp.completed

\* a step that ran the work of a tick: it read the time source
WorkTick == lastOp.op \in {"start", "frame"} /\ lastOp.worked

\* C11: in src/index.ts, a countdown clock that shows seconds declares
\* completion on a work tick if and only if the signed total it read is
\* strictly negative, whatever earlyCompletionMs is; a total of 45000 or of
\* exactly 0 does not complete.
C11_ShowSecondsThresholdZero ==
  (variant = "index" /\ opts.hasCountdown /\ opts.showSeconds /\ WorkTick)
  => (lastOp.completed <=> Lt(lastOp.val, 0))

\* C11: a work tick read a total of exactly 0 with earlyCompletionMs 60000
\* and seconds shown, and did not complete
C11_Witness ==
  /\ variant = "index"
  /\ opts.hasCountdown
  /\ opts.showSeconds
  /\ opts.earlyCompletionMs = <<60000>>
  /\ WorkTick
  /\ lastOp.val = 0
  /\ ~lastOp.completed
  /\ callbackCount = 0

\* the countdown string given to the constructor does not parse as a date
NaNTarget == opts.hasCountdown /\ isNaN(opts.countdown)

\* C12: a clock whose countdown target does not parse (signed total NaN)
\* raises no exception at construction or on a tick, never declares
\* completion (no callback), and its wheels exist and show the digits 00.
C12_NaNTargetIsSafe ==
  NaNTarget =>
    /\ ~lastOp.threw
    /\ callbackCount = 0
    /\ DOMAIN trackers # {}
    /\ \A u \in DOMAIN trackers : \A s \in WheelTypes :
         Displayed(trackers[u])[s] = String(0)

(***************************************************************************)
(* Further properties of a tracker (SpecTracker).                          *)
(***************************************************************************)
\* C13: update(v) with a finite v equal to the current value changes
\* nothing: the tracker (value, digits, classes, handle map) and the
\* browser's timers and animations are what they were, so no transition is
\* started or cancelled and no handle is created or cleared.
C13_UpdateSameValueIsNoOp ==
  [][(lastOp'.op = "update" /\ ~isNaN(lastOp'.val) /\ lastOp'.val = lastOp'.old)
       => (trackers' = trackers /\ timers' = timers /\ anims' = anims)]_vars

\* C13: update(v) came with v the current value while a transition of the
\* tracker was in flight, and the transition is still in flight
C13_Witness ==
  /\ lastOp.op = "update"
  /\ ~isNaN(lastOp.val)
  /\ lastOp.val = lastOp.old
  /\ lastOp.before >= 1
  /\ ~lastOp.wasDestroyed
  /\ Cardinality(Outstanding(World, lastOp.unit)) = lastOp.before

\* the slot s of an index.ts tracker is Idle and shows the digit of the
\* current value: no controller in the map, no animation or handler of the
\* slot pending, exactly one div, whose text is that digit
SettledI(u, s) ==
  /\ trackers[u].animationControllers[s] = 0
  /\ \A a \in anims : ~OfWheel(a, u, s)
  /\ Len(trackers[u].divs[s]) = 1
  /\ trackers[u].divs[s][1] = String(DigitOfI(s, trackers[u].currentValue))

\* a tracker that was not destroyed and whose value is one update accepts
LiveValid(u) ==
  /\ ~trackers[u].destroyed
  /\ trackers[u].currentValue >= 0
  /\ trackers[u].currentValue <= 9999

\* C14: in src/index.ts no call on a tracker throws, and unless calls keep
\* arriving for ever, a live tracker whose last accepted update was
\* update(b) ends, once the pending animations have finished, with both
\* slots Idle, no controller in the map and exactly one div per wheel
\* showing the tens and ones digit of b.
C14_ConvergesToLastValue ==
  /\ [](~lastOp.threw)
  /\ \/ []<><<lastOp'.op = "update">>_vars
     \/ <>[](variant = "index" =>
               \A u \in DOMAIN trackers :
                 LiveValid(u) => \A s \in WheelTypes : SettledI(u, s))

\* C14: the last pending transition has completed after update(10), and
\* both wheels of the tracker are Idle and show the digits 1 and 0
C14_Witness ==
  /\ variant = "index"
  /\ lastOp.op = "then"
  /\ ~lastOp.cancelled
  /\ anims = {}
  /\ \E u \in DOMAIN trackers :
       /\ u = lastOp.unit
       /\ LiveValid(u)
       /\ trackers[u].currentValue = 10
       /\ \A s \in WheelTypes : SettledI(u, s)

formatValue(v, value) ==
  IF v = "index" THEN formatValueI(value) ELSE formatValueW(value)

parseDigits(v, str) ==
  IF v = "index" THEN parseDigitsI(str) ELSE parseDigitsW(str)

FormatInputs == (0..MaxValue) \cup {0 - 1, NaN}

InitFormat ==
  /\ variant \in Variants
  /\ trackers = <<>>
  /\ timers = {}
  /\ anims = {}
  /\ rafs = {}
  /\ now = 0
  /\ opts = NoOptions
  /\ clockKeys = <<>>
  /\ animationFrameId = 0
  /\ frameCounter = 0
  /\ isDestroyed = FALSE
  /\ isTimeReached = FALSE
  /\ animationTimeouts = {}
  /\ callbackCount = 0
  /\ destroyCalled = FALSE
  /\ workTicks = 0
  /\ \E value \in FormatInputs : lastOp = Op("input", "", value, World, "", FALSE)

\* this.parseDigits(this.formatValue(value)), for the value drawn
FormatAndParse ==
  /\ lastOp.op = "input"
  /\ lastOp' = [Op("format", "", lastOp.val, World, "", FALSE) EXCEPT
                  !.calls = <<formatValue(variant, lastOp.val),
                              parseDigits(variant, formatValue(variant, lastOp.val))>>]
  /\ UNCHANGED <<variant, trackers, timers, anims, clockVars>>

NextFormat == FormatAndParse

SpecFormat == InitFormat /\ [][NextFormat]_vars

\* C17: for every integer v in 0..9999, formatValue followed by parseDigits
\* gives the pair (floor(v / 10) mod 10, v mod 10), both components in 0..9:
\* values below 10 are zero-padded and of values from 100 on only the last
\* two characters count.
C17_FormatParseDigits ==
  (lastOp.op = "format" /\ lastOp.val \in 0..9999)
  => /\ lastOp.calls[2] = <<(lastOp.val \div 10) % 10, lastOp.val % 10>>
     /\ lastOp.calls[2][1] \in 0..9
     /\ lastOp.calls[2][2] \in 0..9

\* C17: 123 was formatted to "123" and parsed to (2,3)
C17_Witness ==
  /\ lastOp.op = "format"
  /\ lastOp.val = 123
  /\ lastOp.calls[1] = <<"1", "2", "3">>
  /\ lastOp.calls[2] = <<2, 3>>

\* C18: for the value -1 and for NaN, formatValue returns "00" and
\* parseDigits of it returns the pair (0,0).
C18_InvalidFormatsToZero ==
  (lastOp.op = "format" /\ (lastOp.val = 0 - 1 \/ isNaN(lastOp.val)))
  => /\ lastOp.calls[1] = <<"0", "0">>
     /\ lastOp.calls[2] = <<0, 0>>

(***************************************************************************)
(* Further properties of a clock (SpecClock).                              *)
(***************************************************************************)
\* C19: the first Clock.destroy() invokes destroy() of every tracker the
\* clock created, each once; a later Clock.destroy() invokes no tracker's
\* destroy(), cancels no timer, refresh callback or animation, and does not
\* throw.
C19_DestroyIsIdempotent ==
  [][lastOp'.op = "clockDestroy" =>
       IF ~lastOp'.wasDestroyed
       THEN /\ Len(lastOp'.destroys) = Cardinality(DOMAIN trackers)
            /\ \A u \in DOMAIN trackers :
                 \E i \in 1..Len(lastOp'.destroys) : lastOp'.destroys[i] = u
       ELSE /\ lastOp'.destroys = <<>>
            /\ ~lastOp'.threw
            /\ rafs' = rafs
            /\ timers' = timers
            /\ anims' = anims]_vars

(***************************************************************************)
(* Direction of a decreasing update (SpecTracker).                         *)
(***************************************************************************)
\* the last step was update(new) on a wheel-clock.ts tracker with new below
\* the value it had
DecreasedW ==
  /\ variant = "wheel-clock"
  /\ lastOp.op = "update"
  /\ Lt(lastOp.val, lastOp.old)

\* the update was the forward wrap of the tracker's unit
ForwardWrapW ==
  \/ UpdatedW({"Seconds", "Minutes"}, 59, 0)
  \/ UpdatedW({"Hours"}, 23, 0)

\* C20: in src/wheel-clock.ts, whatever the label, an update that lowers
\* the value rolls every slot whose digit changed backward
\* (wheel-decreasing).
C20_DecreaseRollsBackward ==
  DecreasedW => RollsW(lastOp.old, lastOp.val, "wheel-decreasing")

\* C20 as the code has it: an update that lowers the value rolls every
\* changed slot backward unless it is the forward wrap of the unit (59 to 0
\* for Seconds and Minutes, 23 to 0 for Hours), which rolls every changed
\* slot forward.
C20_DecreaseRollsBackwardUnlessWrap ==
  /\ (DecreasedW /\ ~ForwardWrapW) => RollsW(lastOp.old, lastOp.val, "wheel-decreasing")
  /\ (DecreasedW /\ ForwardWrapW) => RollsW(lastOp.old, lastOp.val, "wheel-increasing")

\* C20: update(29) on a tracker showing 30 rolled both wheels backward
C20_Witness ==
  /\ DecreasedW
  /\ lastOp.old = 30
  /\ lastOp.val = 29
  /\ ChangedSlotsW(30, 29) = WheelTypes
  /\ \A s \in WheelTypes : trackers[lastOp.unit].classes[s] = {"wheel-decreasing"}

(***************************************************************************)
(* getWheelDirection on its own (SpecDirection): a label, two different    *)
(* digits and two unit values are drawn and the resolver of wheel-clock.ts *)
(* is applied to them; the step records its answer.  lastOp.unit holds the *)
(* label, lastOp.old and lastOp.val the old and the new unit value,        *)
(* lastOp.calls the old digit, the new digit and then the answer.          *)
(***************************************************************************)
InitDirection ==
  /\ variant = "wheel-clock"
  /\ trackers = <<>>
  /\ timers = {}
  /\ anims = {}
  /\ rafs = {}
  /\ now = 0
  /\ opts = NoOptions
  /\ clockKeys = <<>>
  /\ animationFrameId = 0
  /\ frameCounter = 0
  /\ isDestroyed = FALSE
  /\ isTimeReached = FALSE
  /\ animationTimeouts = {}
  /\ callbackCount = 0
  /\ destroyCalled = FALSE
  /\ workTicks = 0
  /\ \E label \in TrackerLabels, oldDigit \in 0..9, newDigit \in 0..9,
        oldValue \in 0..MaxUnitValue, newValue \in 0..MaxUnitValue :
       /\ oldDigit # newDigit
       /\ lastOp = [Op("input", label, newValue, World, "", FALSE) EXCEPT
                      !.old = oldValue, !.calls = <<oldDigit, newDigit>>]

\* this.getWheelDirection(oldDigit, newDigit, oldValue, newValue), for the
\* arguments drawn
GetWheelDirection ==
  /\ lastOp.op = "input"
  /\ lastOp' = [lastOp EXCEPT
                  !.op = "direction",
                  !.calls = <<lastOp.calls[1], lastOp.calls[2],
                              getWheelDirection(lastOp.unit, lastOp.calls[1],
                                                lastOp.calls[2], lastOp.old,
                                                lastOp.val)>>]
  /\ UNCHANGED <<variant, trackers, timers, anims, clockVars>>

NextDirection == GetWheelDirection

SpecDirection == InitDirection /\ [][NextDirection]_vars

\* C21: in wheel-clock.ts, for all digits oldDigit # newDigit in 0..9, all
\* unit values old, new in 0..99 and every label, getWheelDirection equals
\* the decision taken in priority order: (1) the unit wrap pair of the label
\* (max to 0 up, 0 to max down); else (2) digit 9 to 0 with new >= old up,
\* digit 0 to 9 with new <= old down; else (3) new < old down, new > old up;
\* else (4) newDigit > oldDigit up, otherwise down.
C21_DirectionPriorityOrder ==
  lastOp.op = "direction" =>
    LET label == lastOp.unit
        oldDigit == lastOp.calls[1]
        newDigit == lastOp.calls[2]
        old == lastOp.old
        new == lastOp.val
        max == IF label \in {"Seconds", "Minutes"} THEN 59
               ELSE IF label = "Hours" THEN 23 ELSE 0 - 1
        reference ==
          IF max >= 0 /\ old = max /\ new = 0 THEN "up"
          ELSE IF max >= 0 /\ old = 0 /\ new = max THEN "down"
          ELSE IF oldDigit = 9 /\ newDigit = 0 /\ new >= old THEN "up"
          ELSE IF oldDigit = 0 /\ newDigit = 9 /\ new <= old THEN "down"
          ELSE IF new < old THEN "down"
          ELSE IF new > old THEN "up"
          ELSE IF newDigit > oldDigit THEN "up"
          ELSE "down"
    IN  lastOp.calls[3] = reference

\* C21: the resolver answered up for the ones digit 9 to 0 of Minutes going
\* from 59 to 0 (rule 1 before rule 3), and the state is one of its answers
C21_Witness ==
  /\ lastOp.op = "direction"
  /\ lastOp.unit = "Minutes"
  /\ lastOp.calls = <<9, 0, "up">>
  /\ lastOp.old = 59
  /\ lastOp.val = 0

\* C22: in index.ts the direction of every transition a tracker starts
\* depends only on its construction options, never on the old or the new
\* value: with animation.direction auto or omitted it is down for type
\* countdown and up for type clock; with animation.direction up or down it
\* is that override for both types.
C22_DirectionFromOptionsOnly ==
  variant = "index" =>
    \A a \in anims :
      LET tr == trackers[a.unit]
      IN  /\ tr.animationOptions.direction \in {"up", "down", "auto"}
          /\ tr.animationOptions.direction = "auto"
               => a.direction = (IF tr.type = "countdown" THEN "down" ELSE "up")
          /\ tr.animationOptions.direction \in {"up", "down"}
               => a.direction = tr.animationOptions.direction

\* C22: an update that lowered the value of a countdown tracker built with
\* the override up has started a transition, and it rolls up
C22_Witness ==
  /\ variant = "index"
  /\ lastOp.op = "update"
  /\ Lt(lastOp.val, lastOp.old)
  /\ \E a \in anims :
       /\ a.unit = lastOp.unit
       /\ a.phase = "running"
       /\ ~a.aborted
       /\ a.direction = "up"
       /\ trackers[a.unit].type = "countdown"
       /\ trackers[a.unit].animationOptions.direction = "up"

\* the transitions a slot holds in world w: its pending completion timers
\* (wheel-clock.ts), its animations whose controller is not aborted (index.ts)
ActiveHandlesIn(w, u, s) ==
  {t \in w.timers : t.kind = "animation" /\ t.unit = u /\ t.slot = s}
    \cup {a \in w.anims : a.unit = u /\ a.slot = s /\ ~a.aborted}

\* the statement that starts the new transition of a slot: the new direction
\* class is added (wheel-clock.ts), the new animation is created (index.ts)
StartsTransition(step, s) ==
  step.slot = s /\ step.stmt \in {"classList.add", "animateWheelTransition"}

\* C23: in either variant, within one update call that changes a slot's
\* digit while the slot has a transition in flight, the old transition is
\* cancelled (timer cleared or controller aborted, handle removed from the
\* map) strictly before the new transition is started (direction class
\* added, or animation created and handle stored); in no intermediate state
\* does the slot hold both the old and the new transition.
C23_CancelBeforeRestart ==
  [][lastOp'.op = "update" =>
       \A u \in {lastOp'.unit} :
       \A call \in {<<Step("call", "", World)>> \o updateSteps(World, u, lastOp'.val)} :
         /\ call[Len(call)].w = World'
         /\ \A s \in WheelTypes :
              ActiveHandlesIn(World, u, s) # {} =>
                /\ \A i \in 1..Len(call) :
                     Cardinality(ActiveHandlesIn(call[i].w, u, s)) <= 1
                /\ \A i \in 2..Len(call) :
                     StartsTransition(call[i], s) =>
                       /\ ActiveHandlesIn(call[i - 1].w, u, s) = {}
                       /\ HandleMap(call[i - 1].w.trackers[u])[s] = 0]_vars

\* C23: an index.ts update has changed the ones digit while the ones wheel
\* had a transition in flight: the old transition is aborted, its handler
\* still queued, and the handle map names the new transition, which runs
C23_Witness ==
  /\ variant = "index"
  /\ lastOp.op = "update"
  /\ ~lastOp.wasDestroyed
  /\ DigitOfI("ones", lastOp.old) # DigitOfI("ones", lastOp.val)
  /\ \E old \in anims, new \in anims :
       /\ OfWheel(old, lastOp.unit, "ones") /\ OfWheel(new, lastOp.unit, "ones")
       /\ old.aborted /\ old.phase = "rejected"
       /\ ~new.aborted /\ new.phase = "running"
       /\ trackers[lastOp.unit].animationControllers["ones"] = new.id
       /\ ActiveHandlesIn(World, lastOp.unit, "ones") = {new}

\* the step was a run of the refresh callback: from the start-delay timer
\* or from a refresh registration
RefreshCallback == lastOp.op \in {"start", "frame"}

\* C24: in either variant, every refresh callback of a live clock increments
\* the tick counter by exactly one; a breakdown is computed (trackers
\* updated or completion checked) only on callbacks where the counter after
\* the increment is a multiple of UPDATE_THROTTLE = 10; on the other nine
\* out of ten callbacks no tracker and no completion state is touched.
C24_ThrottledWork ==
  [][(RefreshCallback' /\ ~destroyCalled) =>
       /\ frameCounter' = frameCounter + 1
       /\ lastOp'.worked <=> (frameCounter' % 10 = 0)
       /\ workTicks' = (IF frameCounter' % 10 = 0 THEN workTicks + 1 ELSE workTicks)
       /\ (frameCounter' % 10 # 0) =>
            /\ UNCHANGED <<trackers, anims, now, isTimeReached, callbackCount>>
            /\ {t \in timers' : t.kind = "animation"} = {t \in timers : t.kind = "animation"}
            /\ lastOp'.calls = <<>>
            /\ ~lastOp'.completed
            /\ animationFrameId' # 0]_vars

\* C24: the twentieth callback of a live clock computed the breakdown and
\* updated the trackers; it is the second callback that did
C24_Witness ==
  /\ RefreshCallback
  /\ ~destroyCalled
  /\ frameCounter = 20
  /\ lastOp.worked
  /\ workTicks = 2
  /\ lastOp.calls # <<>>

\* the start-delay timer has not fired and is still held by the browser
StartPending == \E t \in timers : t.kind = "start"

\* C25: in either variant, no refresh callback is registered and no work
\* tick happens before the start-delay timer (INITIAL_DELAY = 500 ms) fires:
\* until then the tick counter stays 0, every tracker keeps the value of the
\* initial breakdown, and completion is not declared even when the target
\* is already in the past.
C25_NothingBeforeStartDelay ==
  StartPending =>
    /\ \A t \in timers : t.kind = "start" => t.delay = 500
    /\ rafs = {}
    /\ animationFrameId = 0
    /\ frameCounter = 0
    /\ workTicks = 0
    /\ callbackCount = 0
    /\ ~isTimeReached
    /\ anims = {}
    /\ \A t \in timers : t.kind = "start"
    /\ \A u \in DOMAIN trackers :
         LET first == updateFn(variant, opts, 0)
         IN  trackers[u].currentValue =
               (IF isNaN(first.val[u]) THEN 0 ELSE first.val[u])

\* C25: a countdown whose target is already in the past has been built;
\* the start-delay timer is pending and the trackers show the first
\* breakdown
C25_Witness ==
  /\ StartPending
  /\ opts.hasCountdown
  /\ Lt(updateFn(variant, opts, 0).Total, 0)
  /\ lastOp.op = "new"
  /\ DOMAIN trackers # {}
  /\ callbackCount = 0

C27_CallbackAfterCleanup ==
  lastOp.completed =>
    /\ \E i \in 1..Len(lastOp.steps) : lastOp.steps[i].stmt = "callback"
    /\ \A i \in 1..Len(lastOp.steps) :
         lastOp.steps[i].stmt = "callback" =>
           /\ i > 1
           /\ lastOp.steps[i - 1].rafs = {}
           /\ lastOp.steps[i - 1].animationFrameId = 0
           /\ lastOp.steps[i - 1].nonzero = {}
           /\ lastOp.steps[i - 1].callbackCount + 1 = lastOp.steps[i].callbackCount
    /\ \A step \in {lastOp.steps[Len(lastOp.steps)]} :
         /\ step.rafs = rafs
         /\ step.animationFrameId = animationFrameId
         /\ step.callbackCount = callbackCount
         /\ step.nonzero = {u \in DOMAIN trackers : InMap(u) /\ trackers[u].currentValue # 0}

\* C27: a clock whose Minutes and Seconds trackers were away from 0 has
\* completed: the callback was the third statement, after the cancellation
\* and the reset
C27_Witness ==
  /\ lastOp.completed
  /\ lastOp.old >= 2
  /\ Len(lastOp.steps) = 3
  /\ lastOp.steps[3].stmt = "callback"
  /\ lastOp.steps[2].nonzero = {}
  /\ callbackCount = 1
  /\ ~destroyCalled

\* C28: in index.ts the clock's completed flag (isTimeReached) is false at
\* construction, becomes true only on a work tick of a countdown clock whose
\* breakdown satisfies the completion condition, and once true is never
\* reset to false by any later tick or by destroy().
C28_CompletedFlagLatches ==
  /\ (variant = "index" /\ lastOp.op = "new") => ~isTimeReached
  /\ [][variant = "index" =>
          /\ isTimeReached => isTimeReached'
          /\ (~isTimeReached /\ isTimeReached') =>
               /\ WorkTick'
               /\ opts.hasCountdown
               /\ shouldCompleteCountdown(updateFn(variant, opts, now'))]_vars

\* C28: an index.ts countdown has completed and was then destroyed; the
\* flag is still true
C28_Witness ==
  /\ variant = "index"
  /\ isTimeReached
  /\ lastOp.op = "clockDestroy"
  /\ isDestroyed
  /\ callbackCount = 1

\* the fields other than Total of the first breakdown of an index.ts clock,
\* in the order getTimeRemaining and getTime build them
FirstBreakdownKeys ==
  (IF opts.hasCountdown THEN <<"Days", "Hours", "Minutes">> ELSE <<"Hours", "Minutes">>)
    \o (IF opts.showSeconds THEN <<"Seconds">> ELSE <<>>)

\* C29: in index.ts a Clock creates its trackers once, at construction, one
\* per field of the first breakdown other than Total (Days, Hours, Minutes
\* for a countdown, Hours, Minutes for a wall clock, plus Seconds exactly
\* when showSeconds is true); every tracker has type countdown if and only
\* if a countdown target was given; no tracker is added, replaced or changes
\* type on any later tick.
C29_TrackersFixedAtConstruction ==
  /\ [](variant = "index" /\ ~ConstructorThrows(variant, opts) =>
          /\ clockKeys = FirstBreakdownKeys
          /\ DOMAIN trackers = {clockKeys[i] : i \in 1..Len(clockKeys)}
          /\ Cardinality(DOMAIN trackers) = Len(clockKeys)
          /\ \A u \in DOMAIN trackers :
               /\ trackers[u].label = u
               /\ trackers[u].type = "countdown" <=> opts.hasCountdown
               /\ trackers[u].type = "clock" <=> ~opts.hasCountdown)
  /\ [][variant = "index" =>
          /\ DOMAIN trackers' = DOMAIN trackers
          /\ clockKeys' = clockKeys
          /\ \A u \in DOMAIN trackers :
               /\ trackers'[u].type = trackers[u].type
               /\ trackers'[u].label = trackers[u].label
               /\ trackers'[u].animationOptions = trackers[u].animationOptions
               /\ trackers[u].destroyed => trackers'[u].destroyed]_vars

\* C29: an index.ts wall clock that shows seconds has run two work ticks;
\* its trackers are still Hours, Minutes and Seconds, of type clock
C29_Witness ==
  /\ variant = "index"
  /\ ~opts.hasCountdown
  /\ opts.showSeconds
  /\ WorkTick
  /\ workTicks = 2
  /\ DOMAIN trackers = {"Hours", "Minutes", "Seconds"}
  /\ \A u \in DOMAIN trackers : trackers[u].type = "clock"

\* C30: in either variant, construction renders the initial value without
\* animation: right after the constructor both slots show the tens and the
\* ones digit of the initial value (00 when the initial value is NaN), no
\* slot is transitioning, and the handle map is empty.  The digits of a
\* negative value are taken to be those of its magnitude.
C30_ConstructionRendersInitialValue ==
  (lastOp.op = "new" /\ lastOp.unit \in DOMAIN trackers) =>
    \A tr \in {trackers[lastOp.unit]} :
      LET value == lastOp.val
          magnitude == IF isNaN(value) THEN 0
                       ELSE IF value < 0 THEN 0 - value ELSE value
      IN  /\ tr.currentValue = (IF isNaN(value) THEN 0 ELSE value)
          /\ Displayed(tr)["tens"] = NatString((magnitude \div 10) % 10)
          /\ Displayed(tr)["ones"] = NatString(magnitude % 10)
          /\ variant = "index" => \A s \in WheelTypes : Len(tr.divs[s]) = 1
          /\ \A s \in WheelTypes : tr.classes[s] = {}
          /\ HandleMap(tr) = NoHandles
          /\ timers = {}
          /\ anims = {}

(***************************************************************************)
(* A tracker of index.ts without animation (animation.duration <= 0).      *)
(***************************************************************************)
\* the trackers of index.ts built with animation.duration 0 or less
Instant(u) ==
  /\ variant = "index"
  /\ trackers[u].animationOptions.duration <= 0

\* C31: in index.ts, for a tracker configured with animation.duration 0 or
\* less, no slot is ever in transition (one div per wheel, no animation of
\* the tracker exists) and the handle map is empty in every reachable state;
\* and an update that changes a slot's digit has put the new digit into the
\* wheel's div by the time update returns.
C31_InstantUpdateWithoutAnimation ==
  /\ [](\A u \in DOMAIN trackers :
          Instant(u) =>
            /\ trackers[u].animationControllers = NoHandles
            /\ \A a \in anims : a.unit # u
            /\ \A s \in WheelTypes : Len(trackers[u].divs[s]) = 1)
  /\ [][\A u \in DOMAIN trackers :
          (/\ Instant(u)
           /\ lastOp'.op = "update"
           /\ lastOp'.unit = u
           /\ ~lastOp'.warned
           /\ ~StrictEq(lastOp'.val, lastOp'.old))
          => \A s \in WheelTypes :
               DigitOfI(s, lastOp'.old) # DigitOfI(s, lastOp'.val)
               => trackers'[u].divs[s] = <<String(DigitOfI(s, lastOp'.val))>>]_vars

\* C31: a tracker built with duration 0 or less has just been updated from
\* 59 to 10, both digits changed, and both wheels show the new digits
C31_Witness ==
  /\ lastOp.op = "update"
  /\ lastOp.unit \in DOMAIN trackers
  /\ Instant(lastOp.unit)
  /\ lastOp.old = 59
  /\ lastOp.val = 10
  /\ trackers[lastOp.unit].divs = [s \in WheelTypes |-> <<String(DigitOfI(s, 10))>>]
  /\ anims = {}

(***************************************************************************)
(* getTimeRemaining on its own (SpecRemaining): the instant the end time   *)
(* parses to and the instant the time source returns are drawn, in         *)
(* milliseconds, and the function of either variant is applied to them.    *)
(* opts.countdown holds the end time, now the reading of the time source,  *)
(* opts.showSeconds the flag; the step records Total in lastOp.val and the *)
(* displayed fields, in key order, in lastOp.calls.                        *)
(***************************************************************************)
MsPerSecond == 1000
MsPerMinute == 60 * MsPerSecond
MsPerHour == 60 * MsPerMinute
MsPerDay == 24 * MsPerHour

\* instants around every boundary of the breakdown
RemainingInstants ==
  {d * MsPerDay + h * MsPerHour + m * MsPerMinute + s * MsPerSecond + ms :
     d \in 0..MaxDays, h \in {0, 23}, m \in {0, 1, 59}, s \in {0, 59}, ms \in {0, 1, 999}}

InitRemaining ==
  /\ variant \in Variants
  /\ trackers = <<>>
  /\ timers = {}
  /\ anims = {}
  /\ rafs = {}
  /\ clockKeys = <<>>
  /\ animationFrameId = 0
  /\ frameCounter = 0
  /\ isDestroyed = FALSE
  /\ isTimeReached = FALSE
  /\ animationTimeouts = {}
  /\ callbackCount = 0
  /\ destroyCalled = FALSE
  /\ workTicks = 0
  /\ now \in {0, 1, 999, MsPerMinute + 1, MsPerDay, MsPerDay + MsPerHour + MsPerMinute + 1001}
  /\ \E target \in RemainingInstants \cup {0 - 1, 0 - MsPerDay}, showSeconds \in BOOLEAN :
       opts = [NoOptions EXCEPT !.hasCountdown = TRUE, !.countdown = target,
                                !.showSeconds = showSeconds]
  /\ lastOp = Op("input", "", 0, World, "", FALSE)

\* getTimeRemaining(endtime, showSeconds), for the instants drawn
GetTimeRemaining ==
  /\ lastOp.op = "input"
  /\ LET timeObject ==
           IF variant = "index"
           THEN getTimeRemainingI(opts.countdown, now, opts.showSeconds)
           ELSE getTimeRemainingW(opts.countdown, now, opts.showSeconds)
     IN  lastOp' = [lastOp EXCEPT
                      !.op = "remaining",
                      !.val = timeObject.Total,
                      !.calls = [i \in 1..Len(timeObject.keys) |->
                                   <<timeObject.keys[i], timeObject.val[timeObject.keys[i]]>>]]
  /\ UNCHANGED <<variant, trackers, timers, anims, clockVars>>

NextRemaining == GetTimeRemaining

SpecRemaining == InitRemaining /\ [][NextRemaining]_vars

\* the value of a displayed field of the recorded result, 0 when the result
\* has no such field
Field(calls, key) ==
  IF \E i \in 1..Len(calls) : calls[i][1] = key
  THEN (CHOOSE c \in {calls[i] : i \in 1..Len(calls)} : c[1] = key)[2]
  ELSE 0

\* C32: for getTimeRemaining of either variant and integer instants target
\* and now: Total is target - now, signed; Days >= 0, Hours is in 0..23,
\* Minutes in 0..59 and Seconds (returned when showSeconds is set) in 0..59;
\* when target <= now every displayed field is 0; when target > now the
\* fields add up to the whole seconds left, Days*86400 + Hours*3600 +
\* Minutes*60 + Seconds = floor((target - now) / 1000), and without the
\* Seconds field to the whole minutes left.
C32_TimeRemainingBreakdown ==
  lastOp.op = "remaining" =>
    LET diff == opts.countdown - now
        Days == Field(lastOp.calls, "Days")
        Hours == Field(lastOp.calls, "Hours")
        Minutes == Field(lastOp.calls, "Minutes")
        Seconds == Field(lastOp.calls, "Seconds")
    IN  /\ lastOp.val = diff
        /\ {lastOp.calls[i][1] : i \in 1..Len(lastOp.calls)} =
             {"Days", "Hours", "Minutes"} \cup (IF opts.showSeconds THEN {"Seconds"} ELSE {})
        /\ Days >= 0
        /\ Hours \in 0..23
        /\ Minutes \in 0..59
        /\ Seconds \in 0..59
        /\ diff <= 0 => \A i \in 1..Len(lastOp.calls) : lastOp.calls[i][2] = 0
        /\ diff > 0 =>
             IF opts.showSeconds
             THEN Days * 86400 + Hours * 3600 + Minutes * 60 + Seconds = diff \div 1000
             ELSE Days * 1440 + Hours * 60 + Minutes = diff \div 60000

\* C32: the breakdown of wheel-clock.ts for 1 day 23 hours 59 minutes 59
\* seconds and 998 milliseconds left was computed, with seconds
C32_Witness ==
  /\ lastOp.op = "remaining"
  /\ variant = "wheel-clock"
  /\ opts.showSeconds
  /\ opts.countdown - now = MsPerDay + 23 * MsPerHour + 59 * MsPerMinute + 59 * MsPerSecond + 998
  /\ lastOp.calls = << <<"Days", 1>>, <<"Hours", 23>>, <<"Minutes", 59>>, <<"Seconds", 59>> >>

(***************************************************************************)
(* A tracker of wheel-clock.ts fed by a wall clock (SpecWallClock): the    *)
(* tracker of one field of getTime is built from the reading at midnight   *)
(* and then updated with the field's value each time the field's unit has  *)
(* passed; now is the instant of the last reading, within one cycle of the *)
(* field.                                                                  *)
(***************************************************************************)
\* the fields getTime returns
WallClockLabels == {"Hours", "Minutes", "Seconds"}

\* the length of the unit a field counts
UnitMs(label) ==
  IF label = "Hours" THEN MsPerHour
  ELSE IF label = "Minutes" THEN MsPerMinute
  ELSE MsPerSecond

\* the time after which the values of a field repeat
CycleMs(label) ==
  IF label = "Hours" THEN MsPerDay
  ELSE IF label = "Minutes" THEN MsPerHour
  ELSE MsPerMinute

\* the value of a field in the reading of getTime at instant t0
WallClockValue(label, t0) == getTime(t0, opts.twelveHour, TRUE).val[label]

InitWallClock ==
  /\ variant = "wheel-clock"
  /\ now = 0
  /\ opts \in {[NoOptions EXCEPT !.twelveHour = b, !.showSeconds = TRUE] : b \in BOOLEAN}
  /\ \E label \in WallClockLabels :
       /\ trackers = (label :> NewTracker(variant, label, WallClockValue(label, now), "clock",
                                          [duration |-> ANIMATION_DURATION, direction |-> "auto"]))
       /\ lastOp = [Op("new", "", 0, [trackers |-> <<>>, timers |-> {}, anims |-> {}], "", FALSE)
                      EXCEPT !.unit = label, !.val = WallClockValue(label, now)]
  /\ timers = {}
  /\ anims = {}
  /\ rafs = {}
  /\ clockKeys = <<>>
  /\ animationFrameId = 0
  /\ frameCounter = 0
  /\ isDestroyed = FALSE
  /\ isTimeReached = FALSE
  /\ animationTimeouts = {}
  /\ callbackCount = 0
  /\ destroyCalled = FALSE
  /\ workTicks = 0

\* one unit of the field has passed: tracker.update(value of the new reading)
WallClockTick(u) ==
  /\ now' = (now + UnitMs(u)) % CycleMs(u)
  /\ SetWorld(update(World, u, WallClockValue(u, now')))
  /\ lastOp' = Op("update", u, WallClockValue(u, now'), World, "", FALSE)
  /\ UNCHANGED <<variant, rafs, opts, clockKeys, animationFrameId, frameCounter,
                 isDestroyed, isTimeReached, animationTimeouts, callbackCount,
                 destroyCalled, workTicks>>

NextWallClock ==
  \/ \E u \in DOMAIN trackers : WallClockTick(u)
  \/ \E t \in timers : AnimationTimeout(t)

SpecWallClock == InitWallClock /\ [][NextWallClock]_vars

\* C33: in wheel-clock.ts, a tracker fed the successive values a wall clock
\* produces for its unit (Seconds and Minutes v to (v+1) mod 60, Hours in
\* 24-hour mode v to (v+1) mod 24, Hours in twelve-hour mode 1 to 12 and 12
\* to 1) rolls every slot whose digit changes forward: right after the
\* update each changed slot carries wheel-increasing and nothing else.
C33_WallClockRollsForward ==
  lastOp.op = "update" => RollsW(lastOp.old, lastOp.val, "wheel-increasing")

\* C34: a clock of either variant constructed without a countdown target
\* never completes: the completion callback is never invoked, no refresh
\* callback takes the completion branch (the registration it made is kept
\* and no tracker is reset to 0 by handleCountdownComplete: a work tick
\* leaves every tracker of the map at the field of the reading), and in
\* index.ts isTimeReached stays false, whatever earlyCompletionMs was passed.
C34_WallClockNeverCompletes ==
  ~opts.hasCountdown =>
    /\ callbackCount = 0
    /\ ~isTimeReached
    /\ ~lastOp.completed
    /\ lastOp.steps = <<>>
    /\ (lastOp.op \in {"start", "frame"} /\ ~(variant = "index" /\ isDestroyed))
         => animationFrameId # 0 /\ animationFrameId \in rafs
    /\ lastOp.worked =>
         \A u \in DOMAIN trackers :
           InMap(u) => trackers[u].currentValue = updateFn(variant, opts, now).val[u]

\* C34: the index.ts clock without a target and with earlyCompletionMs 60000
\* has done its second work tick, the reading of the time source below 60000
C34_Witness ==
  /\ ~opts.hasCountdown
  /\ variant = "index"
  /\ opts.earlyCompletionMs = <<60000>>
  /\ lastOp.op = "frame"
  /\ lastOp.worked
  /\ workTicks >= 2
  /\ now < 60000
  /\ animationFrameId \in rafs

\* the digit of a slot changes between two values, as updateWheel of the
\* variant compares them
DigitChanges(s, old, new) ==
  IF variant = "index" THEN ~StrictEq(DigitOfI(s, old), DigitOfI(s, new))
  ELSE DigitOfW(s, old) # DigitOfW(s, new)

\* everything of slot s of tracker u that belongs to its transition: the map
\* entry, the pending timers and the animations with their state, the
\* direction class, the digit shown and the children of the wheel
SlotState(w, u, s) ==
  [handle |-> HandleMap(w.trackers[u])[s],
   timers |-> {t \in w.timers : t.kind = "animation" /\ t.unit = u /\ t.slot = s},
   anims |-> {a \in w.anims : a.unit = u /\ a.slot = s},
   class |-> w.trackers[u].classes[s],
   dataValue |-> w.trackers[u].dataValue[s],
   divs |-> w.trackers[u].divs[s]]

InTransitionW(u, s) ==
  /\ u \in DOMAIN trackers
  /\ ~trackers[u].destroyed
  /\ trackers[u].classes[s] # {}

\* C36: in wheel-clock.ts, in every reachable state of a tracker that has
\* not been destroyed, a wheel carries a direction class if and only if the
\* handle map holds a timer for the wheel, that timer is pending with delay
\* ANIMATION_DURATION, and the wheel carries one class only; when the timer
\* fires the class is removed and the map entry deleted; and unless updates
\* that change the slot's digit keep arriving, the wheel is again and again
\* without a class (the timer does fire and the slot returns to Idle).
C36_ClassIffPendingTimer ==
  /\ [](\A u \in DOMAIN trackers : \A s \in WheelTypes :
          ~trackers[u].destroyed =>
            /\ trackers[u].classes[s] # {} <=> trackers[u].animationTimeouts[s] # 0
            /\ trackers[u].classes[s] \in {{}, {"wheel-increasing"}, {"wheel-decreasing"}}
            /\ trackers[u].animationTimeouts[s] # 0 =>
                 \E t \in timers : /\ t.id = trackers[u].animationTimeouts[s]
                                   /\ t.kind = "animation" /\ t.unit = u /\ t.slot = s
                                   /\ t.delay = ANIMATION_DURATION
                                   /\ ~t.cancelled)
  /\ [][\A u \in DOMAIN trackers :
          (lastOp'.op = "timeout" /\ lastOp'.unit = u /\ ~trackers[u].destroyed)
          => /\ trackers'[u].classes[lastOp'.slot] = {}
             /\ trackers'[u].animationTimeouts[lastOp'.slot] = 0
             /\ \A t \in timers' : ~(t.unit = u /\ t.slot = lastOp'.slot)]_vars
  /\ \A u \in TrackerLabels : \A s \in WheelTypes :
       \/ []<>(~InTransitionW(u, s))
       \/ []<><<(/\ lastOp'.op = "update"
                 /\ lastOp'.unit = u
                 /\ DigitChanges(s, lastOp'.old, lastOp'.val))>>_vars

\* C36: the completion timer of the tens wheel has fired on a live tracker
\* while the ones wheel is still in transition: the tens wheel is Idle, the
\* ones wheel carries its class and its timer is pending
C36_Witness ==
  /\ variant = "wheel-clock"
  /\ lastOp.op = "timeout"
  /\ lastOp.slot = "tens"
  /\ ~lastOp.cancelled
  /\ ~trackers[lastOp.unit].destroyed
  /\ trackers[lastOp.unit].classes["tens"] = {}
  /\ trackers[lastOp.unit].animationTimeouts["tens"] = 0
  /\ InTransitionW(lastOp.unit, "ones")
  /\ \E t \in timers : t.id = trackers[lastOp.unit].animationTimeouts["ones"]

\* C37: in wheel-clock.ts, whenever the current value of a tracker is a
\* non-negative integer (after the constructor and after every update with
\* such a value, whether or not a transition is in flight), the data-value
\* of the tens wheel is floor(current / 10) mod 10 and that of the ones
\* wheel is current mod 10.
C37_DataValueMatchesCurrentValue ==
  variant = "wheel-clock" =>
    \A u \in DOMAIN trackers :
      LET current == trackers[u].currentValue
      IN  (~isNaN(current) /\ current >= 0) =>
            /\ trackers[u].dataValue["tens"] = (current \div 10) % 10
            /\ trackers[u].dataValue["ones"] = current % 10

\* C37: update(123) has returned on a wheel-clock.ts tracker that had a
\* transition in flight, and the wheels hold the digits 2 and 3
C37_Witness ==
  /\ variant = "wheel-clock"
  /\ lastOp.op = "update"
  /\ lastOp.before >= 1
  /\ lastOp.val = 123
  /\ trackers[lastOp.unit].currentValue = 123
  /\ trackers[lastOp.unit].dataValue = [s \in WheelTypes |-> IF s = "tens" THEN 2 ELSE 3]

=============================================================================
